---------------------------- MODULE Spec2Model ----------------------------
(***************************************************************************)
(* A model of check_hpe_msa_storage.py (CheckMSA): one run of the plugin,   *)
(* from main() to the process exit.                                         *)
(*                                                                          *)
(* Strings are sequences of atoms.  An atom is a TLA+ string standing for   *)
(* a run of characters that the program never splits; decimal digits are    *)
(* atoms of their own, so that int() and float() are computed from the      *)
(* text.  Python's "a in b" on two strings is Contains(a, b): a is a        *)
(* contiguous run of b.  Python's None is the value None below.             *)
(***************************************************************************)
EXTENDS Integers, Sequences, FiniteSets, TLC

(***************************************************************************)
(* Bounds of the model.                                                     *)
(***************************************************************************)
\* the data source returns at most MaxDevices objects per request
MaxDevices == 2
\* thresholds given on the command line are absent or in 0..MaxThreshold
MaxThreshold == 2

(***************************************************************************)
(* Strings                                                                  *)
(***************************************************************************)
\* Python's None (a property without text, an option that was not given)
None == <<"<None>">>

\* str(x) inside an f-string
Text(v) == IF v = None THEN <<"None">> ELSE v

\* Python: needle in hay, for two str
Contains(needle, hay) ==
    \E i \in 0..(Len(hay) - Len(needle)) :
        SubSeq(hay, i + 1, i + Len(needle)) = needle

\* Python: x in lst, for a list
InList(x, lst) == \E i \in 1..Len(lst) : lst[i] = x

RECURSIVE Without(_, _)
\* Python: s.replace(atom, "") for one of the unit atoms
Without(s, atom) ==
    IF s = <<>> THEN <<>>
    ELSE IF Head(s) = atom THEN Without(Tail(s), atom)
    ELSE <<Head(s)>> \o Without(Tail(s), atom)

Digit == <<"0", "1", "2", "3", "4", "5", "6", "7", "8", "9">>

IsDigit(a) == \E d \in 1..10 : Digit[d] = a

DigitValue(a) == (CHOOSE d \in 1..10 : Digit[d] = a) - 1

\* the text int() accepts: a non-empty run of digits
IsIntText(s) == s # None /\ Len(s) > 0 /\ \A i \in 1..Len(s) : IsDigit(s[i])

RECURSIVE IntOf(_)
\* int(s), for IsIntText(s)
IntOf(s) ==
    IF Len(s) = 1 THEN DigitValue(s[1])
    ELSE 10 * IntOf(SubSeq(s, 1, Len(s) - 1)) + DigitValue(s[Len(s)])

RECURSIVE IntText(_)
\* str(n), for n >= 0
IntText(n) ==
    IF n < 10 THEN <<Digit[n + 1]>>
    ELSE IntText(n \div 10) \o <<Digit[(n % 10) + 1]>>

CaseTable ==
    << <<"a", "A">>, <<"b", "B">>, <<"a1", "A1">>, <<"disk_01.1", "DISK_01.1">>,
       <<"disk_01.2", "DISK_01.2">>, <<"vol", "VOL">>, <<"mgmtport_a", "MGMTPORT_A">>,
       <<"mgmtport_b", "MGMTPORT_B">> >>

UpperAtom(a) ==
    IF \E i \in 1..Len(CaseTable) : CaseTable[i][1] = a
    THEN CaseTable[CHOOSE i \in 1..Len(CaseTable) : CaseTable[i][1] = a][2]
    ELSE a

LowerAtom(a) ==
    IF \E i \in 1..Len(CaseTable) : CaseTable[i][2] = a
    THEN CaseTable[CHOOSE i \in 1..Len(CaseTable) : CaseTable[i][2] = a][1]
    ELSE a

\* str.upper() and str.lower()
Upper(s) == [i \in 1..Len(s) |-> UpperAtom(s[i])]
Lower(s) == [i \in 1..Len(s) |-> LowerAtom(s[i])]

\* [x.upper() for x in lst], [x.lower() for x in lst]
UpperAll(lst) == [i \in 1..Len(lst) |-> Upper(lst[i])]
LowerAll(lst) == [i \in 1..Len(lst) |-> Lower(lst[i])]


(***************************************************************************)
(* The command line: parse_args                                             *)
(***************************************************************************)
Subcommands ==
    {"controllers", "disk-groups", "disks", "fans", "frus", "network-parameters",
     "pools", "ports", "power-supplies", "sensor-status", "system", "volumes",
     "volume-statistics"}

\* the ignore lists (action='append', default=[])
IgnoreOptions ==
    {"ignore_controller_list", "ignore_disks_list", "ignore_fan_list",
     "ignore_fru_list", "ignore_fc_ports_list", "ignore_mgmt_ports_list",
     "ignore_pool_list", "ignore_psu_list", "ignore_sensor_list",
     "ignore_volume_list"}

\* the limits of the disks subcommand that have no critical counterpart
DiskLimitOptions ==
    {"disk_life_left_limit", "disk_poh_limit", "media_errors_1_limit",
     "media_errors_2_limit", "nonmedia_errors_1_limit", "nonmedia_errors_2_limit",
     "block_reassigns_1_limit", "block_reassigns_2_limit", "bad_blocks_1_limit",
     "bad_blocks_2_limit"}

\* the type=int options: None unless given
ThresholdOptions ==
    DiskLimitOptions \cup
    {"sensor_temp_warning", "sensor_temp_critical", "disk_temp_warning",
     "disk_temp_critical", "fan_speed_low_limit", "pool_size_warning",
     "pool_size_critical", "volume_size_warning", "volume_size_critical"}

\* an int option that was not given holds Python's None; one that was given is >= 0
NotGiven == -1

IsNone(x) == x = NotGiven

\* Python's truth value of an int option: None and 0 are false
Truthy(x) == x # NotGiven /\ x # 0

DefaultOptions ==
    [o \in {"subcommand"} \cup IgnoreOptions \cup ThresholdOptions |->
        IF o = "subcommand" THEN "system"
        ELSE IF o \in IgnoreOptions THEN <<>>
        ELSE NotGiven]

(***************************************************************************)
(* The rule tables of the subcommands                                       *)
(***************************************************************************)
\* one side of a parameter rule: a str, or a list of str
Scalar(s) == [isList |-> FALSE, s |-> s]
List(l) == [isList |-> TRUE, l |-> l]

\* "Degraded" is held as two atoms so that a proper part of it can be a value
Degraded == <<"Degr", "aded">>

Rule(prop, ok, warning, critical) ==
    [prop |-> prop, ok |-> ok, warning |-> warning, critical |-> critical]

HealthRule(prop) == Rule(<<prop>>, <<"OK">>, Scalar(Degraded), Scalar(<<"Fault">>))

\* device_parameters_dict of check_<subcommand>, in the order of the dict
device_parameters_dict(subcommand) ==
    CASE subcommand = "system" ->
            << HealthRule("system health"),
               Rule(<<"other MC status">>, <<"Operational">>,
                    Scalar(<<"Not Communicating">>), Scalar(<<"Not Operational">>)) >>
      [] subcommand = "controllers" ->
            << HealthRule("controller health"),
               Rule(<<"controller status">>, <<"Operational">>,
                    Scalar(<<"Not Installed">>), Scalar(<<"Down">>)),
               Rule(<<"controller redundancy status">>, <<"Redundant">>,
                    Scalar(<<"Operational but not redundant">>), Scalar(<<"Down">>)),
               Rule(<<"controller redundancy mode">>, <<"Active-Active ULP">>,
                    List(<< <<"Failed Over">>, <<"Single Controller">> >>),
                    Scalar(<<"Down">>)),
               Rule(<<"controller failed">>, <<"No">>, Scalar(<<>>), Scalar(<<"Yes">>)) >>
      [] subcommand = "disk-groups" ->
            << HealthRule("disk-group health"),
               Rule(<<"disk-group status">>, <<"FTOL">>,
                    List(<< <<"UP">>, <<"FTDN">>, <<"STOP">>, <<"MSNG">> >>),
                    List(<< <<"CRIT">>, <<"DMGD">>, <<"OFFL">>, <<"QTCR">>, <<"QTDN">>,
                            <<"QTOF">>, <<"QTUN">> >>)) >>
      [] subcommand = "disks" ->
            << Rule(<<"disk status">>, <<"Up">>,
                    List(<< <<"Warning">>, <<"Disconnected">> >>), Scalar(<<"Error">>)),
               HealthRule("disk health") >>
      [] subcommand = "fans" ->
            << HealthRule("fan health"),
               Rule(<<"fan status 1">>, <<"Up">>,
                    List(<< <<"Off">>, <<"Missing">> >>), Scalar(<<"Error">>)),
               Rule(<<"fan status 2">>, <<"OK">>,
                    List(<< <<"Warning">>, <<"Unrecoverable">> >>),
                    Scalar(<<"Critical">>)) >>
      [] subcommand = "frus" ->
            << Rule(<<"fru status">>, <<"OK">>,
                    List(<< <<"Invalid Data">>, <<"Absent">> >>), Scalar(<<"Fault">>)) >>
      [] subcommand = "network-parameters" ->
            << HealthRule("management port health") >>
      [] subcommand = "pools" ->
            << HealthRule("pool health") >>
      [] subcommand = "ports" ->
            << Rule(<<"FC port status">>, <<"Up">>,
                    List(<< <<"Warning">>, <<"Disconnected">> >>),
                    List(<< <<"Error">> >>)),
               HealthRule("FC port health") >>
      [] subcommand = "power-supplies" ->
            << HealthRule("psu health"),
               Rule(<<"psu status">>, <<"Up">>,
                    List(<< <<"Off">>, <<"Missing">> >>), Scalar(<<"Error">>)) >>
      [] subcommand = "sensor-status" ->
            << Rule(<<"sensor status">>, <<"OK">>,
                    List(<< <<"Warning">>, <<"Unrecoverable">> >>),
                    Scalar(<<"Critical">>)) >>
      [] subcommand = "volumes" ->
            << HealthRule("volume health") >>
      [] OTHER -> << >>

\* self.error_codes_description: its keys (check_disk_groups sets it, __init__ empties it)
error_codes(subcommand) ==
    IF subcommand = "disk-groups"
    THEN { <<"CRIT">>, <<"DMGD">>, <<"FTDN">>, <<"FTOL">>, <<"MSNG">>, <<"OFFL">>,
           <<"QTCR">>, <<"QTDN">>, <<"QTOF">>, <<"QTUN">>, <<"STOP">>, <<"UNKN">>,
           <<"UP">> }
    ELSE {}

\* self.error_codes_description[code]: the text is one atom
error_description(code) == <<"description of ">> \o code

\* the names of the performance properties, split where the evaluator looks into them
LifeLeft == <<"disk ", "life left">>
PowerOnHours == <<"disk ", "power on hours">>
DiskTemperature == <<"disk ", "temperature">>

ErrorCounterNames ==
    << <<"Media Errors Port 1">>, <<"Media Errors Port 2">>,
       <<"Non-media Errors Port 1">>, <<"Non-media Errors Port 2">>,
       <<"Block Reassignments Port 1">>, <<"Block Reassignments Port 2">>,
       <<"Bad Blocks Port 1">>, <<"Bad Blocks Port 2">> >>

ErrorCounterOptions ==
    << "media_errors_1_limit", "media_errors_2_limit", "nonmedia_errors_1_limit",
       "nonmedia_errors_2_limit", "block_reassigns_1_limit",
       "block_reassigns_2_limit", "bad_blocks_1_limit", "bad_blocks_2_limit" >>

Perf(prop, warning, critical) == [prop |-> prop, warn_crit |-> <<warning, critical>>]

\* device_check_performance_dict of check_disks, check_fans and check_sensor_status
device_check_performance_dict(opts) ==
    CASE opts.subcommand = "disks" ->
            << Perf(LifeLeft, opts.disk_life_left_limit, opts.disk_life_left_limit),
               Perf(PowerOnHours, opts.disk_poh_limit, opts.disk_poh_limit),
               Perf(DiskTemperature, opts.disk_temp_warning, opts.disk_temp_critical) >>
            \o [i \in 1..8 |-> Perf(ErrorCounterNames[i], opts[ErrorCounterOptions[i]],
                                    opts[ErrorCounterOptions[i]])]
      [] opts.subcommand = "fans" ->
            << Perf(<<"fan speed">>, opts.fan_speed_low_limit, opts.fan_speed_low_limit) >>
      [] opts.subcommand = "sensor-status" ->
            << Perf(<<"sensor value">>, opts.sensor_temp_warning,
                    opts.sensor_temp_critical) >>
      [] OTHER -> << >>

Difference(name, first, second, warning, critical) ==
    [name |-> name, first |-> first, second |-> second,
     warn_crit |-> <<warning, critical>>]

\* device_difference_dict of check_pools, check_volumes and check_volume_statistics
device_difference_dict(opts) ==
    CASE opts.subcommand = "pools" ->
            << Difference(<<"pool usage">>, <<"pool size">>, <<"pool available">>,
                          opts.pool_size_warning, opts.pool_size_critical) >>
      [] opts.subcommand = "volumes" ->
            << Difference(<<"volume usage">>, <<"volume size">>,
                          <<"volume allocated size">>,
                          opts.volume_size_warning, opts.volume_size_critical) >>
      [] opts.subcommand = "volume-statistics" ->
            << Difference(<<"iops usage">>, <<"iops">>, <<"bytes-per-second">>,
                          opts.volume_size_warning, opts.volume_size_critical) >>
      [] OTHER -> << >>

\* the ignore_list that check_<subcommand> hands to its analyze passes; the
\* subcommands that pass none leave the parameter's default, the str ""
ignore_list(opts) ==
    CASE opts.subcommand = "controllers" -> List(UpperAll(opts.ignore_controller_list))
      [] opts.subcommand = "disks" -> List(LowerAll(opts.ignore_disks_list))
      [] opts.subcommand = "fans" -> List(opts.ignore_fan_list)
      [] opts.subcommand = "frus" -> List(opts.ignore_fru_list)
      [] opts.subcommand = "network-parameters" ->
            List(LowerAll(opts.ignore_mgmt_ports_list))
      [] opts.subcommand = "pools" -> List(UpperAll(opts.ignore_controller_list))
      [] opts.subcommand = "ports" -> List(UpperAll(opts.ignore_fc_ports_list))
      [] opts.subcommand = "power-supplies" -> List(opts.ignore_psu_list)
      [] opts.subcommand = "sensor-status" -> List(opts.ignore_sensor_list)
      [] opts.subcommand = "volumes" -> List(LowerAll(opts.ignore_volume_list))
      [] opts.subcommand = "volume-statistics" ->
            List(LowerAll(opts.ignore_volume_list))
      [] OTHER -> Scalar(<<>>)


(***************************************************************************)
(* The devices the data source returns                                      *)
(***************************************************************************)
\* property_dict of check_<subcommand>: its property names in the order of the dict,
\* without the "basetype" entry (the XPath of each property is left out)
property_dict(subcommand) ==
    CASE subcommand = "system" ->
          <<
             <<"product id">>, <<"system name">>, <<"midplane serial number">>,
             <<"system health">>, <<"system health reason">>, <<"other MC status">> >>
      [] subcommand = "controllers" ->
          <<
             <<"controller id">>, <<"controller model">>, <<"controller status">>,
             <<"controller health">>, <<"controller redundancy status">>,
             <<"controller redundancy mode">>, <<"controller failed">>,
             <<"controller failed reason">>, <<"controller serial">>,
             <<"disk number">>, <<"ip address">>, <<"mac address">>,
             <<"controller health reason">>, <<"controller health recommendation">> >>
      [] subcommand = "disk-groups" ->
          <<
             <<"disk-group name">>, <<"disk-group health">>, <<"disk-group status">>,
             <<"disk-group raid type">>, <<"disk-group related pool">>,
             <<"disk-group disk count">>, <<"disk-group size">>,
             <<"disk-group available">>, <<"disk-group current job">>,
             <<"disk-group health reason">>, <<"disk-group health recomm.">> >>
      [] subcommand = "disk-statistics" ->
          <<
             <<"disk id">>, <<"Media Errors Port 1">>, <<"Media Errors Port 2">>,
             <<"Non-media Errors Port 1">>, <<"Non-media Errors Port 2">>,
             <<"Block Reassignments Port 1">>, <<"Block Reassignments Port 2">>,
             <<"Bad Blocks Port 1">>, <<"Bad Blocks Port 2">> >>
      [] subcommand = "disks" ->
          <<
             <<"disk id">>, <<"disk slot">>, <<"disk status">>, <<"disk health">>,
             LifeLeft, PowerOnHours, <<"disk model">>, <<"disk serial">>,
             <<"disk architecture">>, <<"disk interface">>, <<"disk transfer rate">>,
             <<"disk size">>, DiskTemperature, <<"disk owner controller">>,
             <<"disk pool usage">>, <<"disk pool">>, <<"disk disk-group usage">> >>
      [] subcommand = "fans" ->
          <<
             <<"fan name">>, <<"fan health">>, <<"fan status 1">>,
             <<"fan status 2">>, <<"fan speed">>, <<"fan location">>,
             <<"fan position">>, <<"fan health reason">>, <<"fan health recomm.">> >>
      [] subcommand = "frus" ->
          <<
             <<"fru name">>, <<"fru description">>, <<"fru part number">>,
             <<"fru serial number">>, <<"fru manufacturing date">>,
             <<"fru location">>, <<"fru status">> >>
      [] subcommand = "network-parameters" ->
          <<
             <<"management port">>, <<"management port ip address">>,
             <<"management port health">> >>
      [] subcommand = "pools" ->
          <<
             <<"pool name">>, <<"pool health">>, <<"pool serial">>,
             <<"pool owner controller">>, <<"pool type">>, <<"pool size">>,
             <<"pool available">>, <<"pool health reason">>,
             <<"pool health recommendation">> >>
      [] subcommand = "ports" ->
          <<
             <<"FC port name">>, <<"FC port type">>, <<"FC port status">>,
             <<"FC port health">>, <<"FC port actual speed">> >>
      [] subcommand = "power-supplies" ->
          <<
             <<"psu name">>, <<"psu description">>, <<"psu part number">>,
             <<"psu serial number">>, <<"psu manufacturing date">>,
             <<"psu location">>, <<"psu status">>, <<"psu health">>,
             <<"psu health reason">>, <<"psu health recommendation">> >>
      [] subcommand = "sensor-status" ->
          <<
             <<"sensor name">>, <<"sensor value">>, <<"sensor status">> >>
      [] subcommand = "volumes" ->
          <<
             <<"volume name">>, <<"volume health">>, <<"volume size">>,
             <<"volume allocated size">>, <<"virtual disk name">>,
             <<"storage pool name">>, <<"raid type">>, <<"volume health reason">>,
             <<"volume health recommendation">> >>
      [] subcommand = "volume-statistics" ->
          <<
             <<"volume name">>, <<"bytes-per-second">>, <<"iops">> >>

\* property_dict["basetype"] where the dict has one, the device part otherwise
check_url(subcommand) ==
    CASE subcommand = "disks" -> <<"drives">>
      [] subcommand = "fans" -> <<"fan">>
      [] subcommand = "frus" -> <<"enclosure-fru">>
      [] subcommand = "ports" -> <<"port">>
      [] subcommand = "sensor-status" -> <<"sensors">>
      [] OTHER -> <<subcommand>>

\* a dict is the sequence of its <<key, value>> items, in insertion order
HasKey(dict, key) == \E i \in 1..Len(dict) : dict[i][1] = key

\* dict[key]
Get(dict, key) == dict[CHOOSE i \in 1..Len(dict) : dict[i][1] = key][2]

\* dict[key] = value
Put(dict, key, value) ==
    IF HasKey(dict, key)
    THEN [i \in 1..Len(dict) |-> IF dict[i][1] = key THEN <<key, value>> ELSE dict[i]]
    ELSE Append(dict, <<key, value>>)

RECURSIVE Merge(_, _)
\* {**a, **b}
Merge(a, b) == IF b = <<>> THEN a ELSE Merge(Put(a, b[1][1], b[1][2]), Tail(b))

\* next(iter(property_dict)): the property that names the device
device_name_string(subcommand) == property_dict(subcommand)[1]

(***************************************************************************)
(* The result stores and the evaluators                                     *)
(*                                                                          *)
(* An evaluator takes and returns a store st:                               *)
(*   result_list  self.result_list, the flat list of messages               *)
(*   result_dict  self.result_dict, device name -> list of messages         *)
(*   stdout       the lines printed so far                                  *)
(*   exception    the Python exception raised and not caught, with the       *)
(*                function that raised it; "" if none                       *)
(*   evals        a log of the evaluations made, one entry per call of an   *)
(*                evaluator; the program does not hold it                   *)
(***************************************************************************)
Message(status, output, tail) == <<status, " - ">> \o output \o tail

Raise(st, exception) == [st EXCEPT !.exception = exception]

Log(st, entry) == [st EXCEPT !.evals = Append(@, entry)]

\* print(line)
PrintLine(st, line) == [st EXCEPT !.stdout = Append(@, line)]

\* self.result_list.append(message)
result_list_append(st, message) == [st EXCEPT !.result_list = Append(@, message)]

\* a per-device mapping in which a new message takes the place of the earlier ones of
\* its device, which C25 must tell from result_dict_append
result_dict_overwrite(st, device_name, status, output) ==
    LET message == Message(status, output, <<".">>)
    IN  [st EXCEPT !.result_dict = Put(@, device_name, <<message>>)]

\* result_dict_append(device_name, status, output)
result_dict_append(st, device_name, status, output) ==
    LET message == Message(status, output, <<".">>)
    IN  [st EXCEPT !.result_dict =
            IF HasKey(@, device_name)
            THEN Put(@, device_name, Append(Get(@, device_name), message))
            ELSE Append(@, <<device_name, <<message>> >>)]

\* what an evaluation left in the stores: the severity of the message and the store
\* that took it ("" and "none" when no message was recorded)
Outcome(pass, dev, device_name, prop, value, rule, status, store, perfdata) ==
    [pass |-> pass, dev |-> dev, device_name |-> device_name, prop |-> prop,
     value |-> value, rule |-> rule, status |-> status, store |-> store,
     perfdata |-> perfdata]

\* critical_status after the two isinstance tests
critical_list(warning_status, critical_status) ==
    IF ~warning_status.isList THEN <<warning_status.s>>
    ELSE IF ~critical_status.isList THEN <<critical_status.s>>
    ELSE critical_status.l

\* check_device_parameter(device_name, device_property_name, device_property_value,
\*                        ok_status, warning_status, critical_status)
\* dev is the index of the device in self.device_part_list; codes are the keys of
\* self.error_codes_description
check_device_parameter(st, dev, device_name, rule, value, codes) ==
    LET output == Text(device_name) \o <<" ">> \o rule.prop \o <<" is ">> \o Text(value)
        critical == critical_list(rule.warning, rule.critical)
        described == <<". ">> \o error_description(value)
        done(status, store, st1) ==
            Log(st1, Outcome("parameter", dev, device_name, rule.prop, value, rule,
                             status, store, FALSE))
        record(status, tail) ==
            IF codes # {}
            THEN IF value \in codes
                 THEN done(status, "list",
                           result_list_append(st, Message(status, output,
                                                          described \o tail)))
                 ELSE done("", "none", st)
            ELSE done(status, "list", result_list_append(st, Message(status, output, tail)))
    IN  IF InList(value, critical) THEN record("CRITICAL", <<"!">>)
        ELSE IF ~rule.warning.isList /\ value = None
        THEN Raise(st, "TypeError in check_device_parameter")
        ELSE IF (IF rule.warning.isList THEN InList(value, rule.warning.l)
                 ELSE Contains(value, rule.warning.s))
        THEN record("WARNING", <<"!">>)
        ELSE IF value = rule.ok
        THEN IF codes # {}
             THEN IF value \in codes
                  THEN done("OK", "list",
                            result_list_append(st, Message("OK", output, described)))
                  ELSE done("", "none", st)
             ELSE done("OK", "dict", result_dict_append(st, device_name, "OK", output))
        ELSE done("UNKNOWN", "list",
                  result_list_append(st, Message("UNKNOWN", output, <<".">>)))

(***************************************************************************)
(* Numbers in text                                                          *)
(***************************************************************************)
\* the text float() is given in the model: digits, or digits "." digit
IsFloatText(s) ==
    /\ s # None
    /\ \/ IsIntText(s)
       \/ /\ Len(s) >= 3
          /\ s[Len(s) - 1] = "."
          /\ IsDigit(s[Len(s)])
          /\ IsIntText(SubSeq(s, 1, Len(s) - 2))

\* float(s) in tenths, for IsFloatText(s)
FloatTenths(s) ==
    IF IsIntText(s) THEN 10 * IntOf(s)
    ELSE 10 * IntOf(SubSeq(s, 1, Len(s) - 2)) + DigitValue(s[Len(s)])

\* n / d rounded to the nearest integer, a tie to the even one (d > 0)
RoundDiv(n, d) ==
    LET q == n \div d
        r == n % d
    IN  IF 2 * r < d THEN q
        ELSE IF 2 * r > d THEN q + 1
        ELSE IF q % 2 = 0 THEN q ELSE q + 1

RECURSIVE FloatText(_)
\* str(x) of the float x = tenths / 10
FloatText(tenths) ==
    IF tenths < 0 THEN <<"-">> \o FloatText(-tenths)
    ELSE IntText(tenths \div 10) \o <<".">> \o IntText(tenths % 10)

\* str(x) of the float x = hundredths / 100
FloatText2(hundredths) ==
    IntText(hundredths \div 100) \o <<".">> \o
    (IF hundredths % 10 = 0 THEN IntText((hundredths % 100) \div 10)
     ELSE IntText((hundredths % 100) \div 10) \o IntText(hundredths % 10))

\* str(x) of an int option
OptionText(x) == IF x = NotGiven THEN <<"None">> ELSE IntText(x)

\* re.search(r'(\d+\.\d+)(.*)', s): the places where a match can start
MatchStarts(s) ==
    {i \in 1..Len(s) :
        /\ IsDigit(s[i])
        /\ \E j \in i..(Len(s) - 2) :
              /\ \A k \in i..j : IsDigit(s[k])
              /\ s[j + 1] = "."
              /\ IsDigit(s[j + 2])}

\* the match: [int: group(1) before the point, frac: after it, rest: group(2)]
TransferMatch(s) ==
    LET i == CHOOSE a \in MatchStarts(s) : \A b \in MatchStarts(s) : a <= b
        j == CHOOSE b \in i..(Len(s) - 2) :
                (\A k \in i..b : IsDigit(s[k])) /\ s[b + 1] = "."
        e == CHOOSE b \in (j + 2)..Len(s) :
                /\ \A k \in (j + 2)..b : IsDigit(s[k])
                /\ (b = Len(s) \/ ~IsDigit(s[b + 1]))
    IN  [int |-> SubSeq(s, i, j), frac |-> SubSeq(s, j + 2, e),
         rest |-> SubSeq(s, e + 1, Len(s))]

(***************************************************************************)
(* check_device_performances                                                *)
(***************************************************************************)
PerfOutcome(pass, dev, device_name, prop, value, warn_crit, status, store) ==
    Outcome(pass, dev, device_name, prop, value, warn_crit, status, store, TRUE)

\* the branch "life left"
perf_life_left(st, pass, dev, device_name, warn_crit, prop, value) ==
    IF value = None THEN Raise(st, "AttributeError in check_device_performances")
    ELSE IF ~IsIntText(Without(value, "%"))
        THEN Raise(st, "ValueError in check_device_performances")
    ELSE
    LET v == IntOf(Without(value, "%"))
        warning == warn_crit[1]
        output == Text(device_name) \o <<" life left is ">> \o IntText(v) \o <<" %">>
        st1 == PrintLine(st, <<"|">> \o Text(device_name) \o <<" life left=">>
                             \o IntText(v) \o <<"%;">> \o OptionText(warning)
                             \o <<";;100;0">>)
        status == IF warning >= v THEN "WARNING" ELSE "OK"
    IN  Log(result_dict_append(st1, device_name, status, output),
            PerfOutcome(pass, dev, device_name, prop, value, warn_crit, status, "dict"))

\* the branch "power on hours"
perf_power_on_hours(st, pass, dev, device_name, warn_crit, prop, value) ==
    IF value = None THEN Raise(st, "TypeError in check_device_performances")
    ELSE IF ~IsIntText(value) THEN Raise(st, "ValueError in check_device_performances")
    ELSE
    LET v == IntOf(value)
        warning == warn_crit[1]
        output == Text(device_name) \o <<" power on hours are ">> \o IntText(v)
                  \o <<" hours">>
        status == IF warning <= v THEN "WARNING" ELSE "OK"
    IN  Log(result_dict_append(st, device_name, status, output),
            [PerfOutcome(pass, dev, device_name, prop, value, warn_crit, status, "dict")
                EXCEPT !.perfdata = FALSE])

\* the comparison with the critical boundary left out: a comparison that C11 must
\* tell from three_way
three_way_above(v, warning, critical) ==
    IF critical < v THEN "CRITICAL"
    ELSE IF warning <= v THEN "WARNING"
    ELSE "OK"

\* the three-way comparison of the temperature and usage branches
three_way(v, warning, critical) ==
    IF critical <= v THEN "CRITICAL"
    ELSE IF warning <= v /\ v < critical THEN "WARNING"
    ELSE IF v < warning THEN "OK"
    ELSE ""

\* the branch "temperature"
perf_temperature(st, pass, dev, device_name, warn_crit, prop, value) ==
    IF value = None THEN Raise(st, "AttributeError in check_device_performances")
    ELSE IF ~IsIntText(Without(value, " C"))
        THEN Raise(st, "ValueError in check_device_performances")
    ELSE
    LET v == IntOf(Without(value, " C"))
        warning == warn_crit[1]
        critical == warn_crit[2]
        output == Text(device_name) \o <<" temperature ">> \o IntText(v) \o <<" C">>
        st1 == PrintLine(st, <<"|">> \o Text(device_name) \o <<" temperature=">>
                             \o IntText(v) \o <<";">> \o OptionText(warning) \o <<";">>
                             \o OptionText(critical) \o <<";0;;">>)
        status == three_way(v, warning, critical)
    IN  Log(IF status = "" THEN st1
            ELSE result_dict_append(st1, device_name, status, output),
            PerfOutcome(pass, dev, device_name, prop, value, warn_crit, status,
                        IF status = "" THEN "none" ELSE "dict"))

\* the branches "pool usage" (used = total - available) and "volume usage"
\* (used = the second value); value is the pair of the two property values
perf_usage(st, pass, dev, device_name, warn_crit, prop, value, is_pool) ==
    IF value[1] = None \/ value[2] = None
        THEN Raise(st, "AttributeError in check_device_performances")
    ELSE IF ~IsFloatText(Without(value[1], "GB")) \/ ~IsFloatText(Without(value[2], "GB"))
    THEN Raise(st, "ValueError in check_device_performances")
    ELSE IF IsNone(warn_crit[1]) \/ IsNone(warn_crit[2])
        THEN Raise(st, "TypeError in check_device_performances")
    ELSE IF FloatTenths(Without(value[1], "GB")) = 0
        THEN Raise(st, "ZeroDivisionError in check_device_performances")
    ELSE
    LET total_size == FloatTenths(Without(value[1], "GB"))
        second == FloatTenths(Without(value[2], "GB"))
        used_size == IF is_pool THEN total_size - second ELSE second
        warning == RoundDiv(total_size * warn_crit[1], 100)
        critical == RoundDiv(total_size * warn_crit[2], 100)
        used_percent == RoundDiv(used_size * 1000, total_size)
        output == Text(device_name) \o <<" usage is ">> \o FloatText(used_percent)
                  \o <<"% (">> \o FloatText(used_size) \o <<" GB/">>
                  \o FloatText(total_size) \o <<" GB)">>
        st1 == PrintLine(st, <<"|">> \o Text(device_name) \o <<" GB=">>
                             \o FloatText(used_size) \o <<";">> \o FloatText(warning)
                             \o <<";">> \o FloatText(critical) \o <<";0;">>
                             \o FloatText(total_size) \o <<";">>)
        status == three_way(used_size, warning, critical)
    IN  Log(IF status = "" THEN st1
            ELSE result_dict_append(st1, device_name, status, output),
            PerfOutcome(pass, dev, device_name, prop, value, warn_crit, status,
                        IF status = "" THEN "none" ELSE "dict"))

\* check_disk_error_numbers with the limit itself left out of the alarm: an evaluator
\* that C14 must tell from check_disk_error_numbers
check_disk_error_numbers_above(st, pass, dev, device_name, warn_crit, prop, value) ==
    LET v == IntOf(value)
        warning == warn_crit[1]
        output == Text(device_name) \o <<" has '">> \o prop \o <<"' ">> \o IntText(v)
                  \o <<" errors. (limit: ">> \o OptionText(warning) \o <<")">>
        status == IF v > warning THEN "WARNING" ELSE "OK"
    IN  Log(result_dict_append(st, device_name, status, output),
            PerfOutcome(pass, dev, device_name, prop, value, warn_crit, status, "dict"))

\* check_disk_error_numbers(device_name, device_property_name, device_property_value,
\*                          performance_warn_crit_list)
check_disk_error_numbers(st, pass, dev, device_name, warn_crit, prop, value) ==
    IF value = None THEN Raise(st, "TypeError in check_disk_error_numbers")
    ELSE IF ~IsIntText(value) THEN Raise(st, "ValueError in check_disk_error_numbers")
    ELSE
    LET v == IntOf(value)
        warning == warn_crit[1]
        output == Text(device_name) \o <<" has '">> \o prop \o <<"' ">> \o IntText(v)
                  \o <<" errors. (limit: ">> \o OptionText(warning) \o <<")">>
        st1 == PrintLine(st, <<"|">> \o Text(device_name) \o <<" ">> \o prop \o <<"=">>
                             \o IntText(v) \o <<";">> \o OptionText(warning)
                             \o <<";;0;100">>)
        status == IF v >= warning THEN "WARNING" ELSE "OK"
    IN  Log(result_dict_append(st1, device_name, status, output),
            PerfOutcome(pass, dev, device_name, prop, value, warn_crit, status, "dict"))

\* the branch "fan speed" with the limit itself left out of the alarm: a branch that
\* C13 must tell from perf_fan_speed
perf_fan_speed_below(st, pass, dev, device_name, warn_crit, prop, value) ==
    LET v == IntOf(value)
        warning == warn_crit[1]
        output == Text(device_name) \o <<" speed ">> \o IntText(v) \o <<" rpm">>
        status == IF warning > v THEN "WARNING" ELSE "OK"
    IN  Log(result_dict_append(st, device_name, status, output),
            PerfOutcome(pass, dev, device_name, prop, value, warn_crit, status, "dict"))

\* the branch "fan speed"
perf_fan_speed(st, pass, dev, device_name, warn_crit, prop, value) ==
    IF value = None THEN Raise(st, "TypeError in check_device_performances")
    ELSE IF ~IsIntText(value) THEN Raise(st, "ValueError in check_device_performances")
    ELSE
    LET v == IntOf(value)
        warning == warn_crit[1]
        output == Text(device_name) \o <<" speed ">> \o IntText(v) \o <<" rpm">>
        st1 == PrintLine(st, <<"|">> \o Text(device_name) \o <<" speed=">>
                             \o IntText(v) \o <<";">> \o OptionText(warning)
                             \o <<";;0;">>)
        status == IF warning >= v THEN "WARNING" ELSE "OK"
    IN  Log(result_dict_append(st1, device_name, status, output),
            PerfOutcome(pass, dev, device_name, prop, value, warn_crit, status, "dict"))

\* the branch "iops usage" with a rate in KB printed as it is: a branch that C22 must
\* tell from perf_iops_usage
perf_iops_usage_undivided(st, pass, dev, device_name, warn_crit, prop, value) ==
    LET m == TransferMatch(value[2])
        tenths == 10 * IntOf(m.int) + DigitValue(m.frac[1])
        st1 == PrintLine(st, <<"|">> \o Text(device_name) \o <<" iops=">>
                             \o IntText(IntOf(value[1])) \o <<";;;0;; ">>
                             \o Text(device_name) \o <<" transfer speed=">>
                             \o FloatText(tenths) \o <<"MB;;;0;;">>)
    IN  Log(st1, PerfOutcome(pass, dev, device_name, prop, value, warn_crit, "", "none"))

\* the branch "iops usage": value is the pair (iops, bytes-per-second); the model
\* gives float() one digit after the point
perf_iops_usage(st, pass, dev, device_name, warn_crit, prop, value) ==
    IF value[1] = None \/ value[2] = None
        THEN Raise(st, "TypeError in check_device_performances")
    ELSE IF ~IsIntText(value[1]) THEN Raise(st, "ValueError in check_device_performances")
    ELSE IF MatchStarts(value[2]) = {}
        THEN Raise(st, "AttributeError in check_device_performances")
    ELSE
    LET iops == IntOf(value[1])
        m == TransferMatch(value[2])
        tenths == 10 * IntOf(m.int) + DigitValue(m.frac[1])
        speed == IF m.rest = <<"KB">> THEN FloatText2(RoundDiv(tenths * 10, 1024))
                 ELSE FloatText(tenths)
        st1 == PrintLine(st, <<"|">> \o Text(device_name) \o <<" iops=">>
                             \o IntText(iops) \o <<";;;0;; ">> \o Text(device_name)
                             \o <<" transfer speed=">> \o speed \o <<"MB;;;0;;">>)
    IN  Log(st1, PerfOutcome(pass, dev, device_name, prop, value, warn_crit, "", "none"))

IsErrorCounter(prop) ==
    \E i \in 1..Len(ErrorCounterNames) : Contains(ErrorCounterNames[i], prop)

\* check_device_performances(device_name, performance_warn_crit_list,
\*                           device_property_name, device_property_value)
check_device_performances(st, pass, dev, device_name, warn_crit, prop, value) ==
    IF Contains(<<"life left">>, prop)
    THEN perf_life_left(st, pass, dev, device_name, warn_crit, prop, value)
    ELSE IF Contains(<<"power on hours">>, prop)
    THEN perf_power_on_hours(st, pass, dev, device_name, warn_crit, prop, value)
    ELSE IF ~Contains(<<"temperature">>, prop) /\ device_name = None
    THEN Raise(st, "TypeError in check_device_performances")
    ELSE IF \/ Contains(<<"temperature">>, prop)
            \/ Contains(<<"CPU Temperature">>, device_name)
            \/ Contains(<<"Disk Controller Temperature">>, device_name)
    THEN perf_temperature(st, pass, dev, device_name, warn_crit, prop, value)
    ELSE IF Contains(<<"pool usage">>, prop)
    THEN perf_usage(st, pass, dev, device_name, warn_crit, prop, value, TRUE)
    ELSE IF IsErrorCounter(prop)
    THEN check_disk_error_numbers(st, pass, dev, device_name, warn_crit, prop, value)
    ELSE IF Contains(<<"fan speed">>, prop)
    THEN perf_fan_speed(st, pass, dev, device_name, warn_crit, prop, value)
    ELSE IF Contains(<<"volume usage">>, prop)
    THEN perf_usage(st, pass, dev, device_name, warn_crit, prop, value, FALSE)
    ELSE IF Contains(<<"iops usage">>, prop)
    THEN perf_iops_usage(st, pass, dev, device_name, warn_crit, prop, value)
    ELSE Log(st, [PerfOutcome(pass, dev, device_name, prop, value, warn_crit, "",
                              "none") EXCEPT !.perfdata = FALSE])

(***************************************************************************)
(* The analyze passes over self.device_part_list                            *)
(***************************************************************************)
\* device_name in ignore_list, for the list a subcommand passes or the default ""
Ignored(device_name, ignore) ==
    IF ignore.isList THEN InList(device_name, ignore.l)
    ELSE Contains(device_name, ignore.s)

\* device_name not in ignore_list raises TypeError for None in a str
IgnoreRaises(device_name, ignore) == ~ignore.isList /\ device_name = None

RECURSIVE parameters_of_device(_, _, _, _, _, _, _)
\* the inner loop of analyze_device_parameters, from rule k on
parameters_of_device(st, dev, device_dict, device_name, rules, k, codes) ==
    IF k > Len(rules) \/ st.exception # "" THEN st
    ELSE parameters_of_device(
            check_device_parameter(st, dev, device_name, rules[k],
                                   Get(device_dict, rules[k].prop), codes),
            dev, device_dict, device_name, rules, k + 1, codes)

\* the body of the loop without the test of the ignore list: a pass that C6 must
\* tell from analyze_device_parameters
analyze_parameters_of_unfiltered(st, devices, dev, rules, name_string, ignore, codes) ==
    parameters_of_device(st, dev, devices[dev], Get(devices[dev], name_string), rules, 1,
                         codes)

\* the body of the loop of analyze_device_parameters for the device at index dev
analyze_parameters_of(st, devices, dev, rules, name_string, ignore, codes) ==
    LET device_name == Get(devices[dev], name_string)
    IN  IF IgnoreRaises(device_name, ignore)
        THEN Raise(st, "TypeError in analyze_device_parameters")
        ELSE IF Ignored(device_name, ignore) THEN st
        ELSE parameters_of_device(st, dev, devices[dev], device_name, rules, 1, codes)

RECURSIVE analyze_device_parameters(_, _, _, _, _, _, _)
\* analyze_device_parameters(device_parameters_dict, device_name_string, ignore_list),
\* from the device at index dev on
analyze_device_parameters(st, devices, dev, rules, name_string, ignore, codes) ==
    IF dev > Len(devices) \/ st.exception # "" THEN st
    ELSE analyze_device_parameters(
            analyze_parameters_of(st, devices, dev, rules, name_string, ignore, codes),
            devices, dev + 1, rules, name_string, ignore, codes)

RECURSIVE performances_of_device(_, _, _, _, _, _)
\* the inner loop of analyze_device_performances, from entry k on
performances_of_device(st, dev, device_dict, device_name, perfs, k) ==
    IF k > Len(perfs) \/ st.exception # "" THEN st
    ELSE performances_of_device(
            IF IsNone(perfs[k].warn_crit[1]) \/ IsNone(perfs[k].warn_crit[2]) THEN st
            ELSE check_device_performances(st, "performance", dev, device_name,
                                           perfs[k].warn_crit, perfs[k].prop,
                                           Get(device_dict, perfs[k].prop)),
            dev, device_dict, device_name, perfs, k + 1)

\* the body of the loop of analyze_device_performances for the device at index dev
analyze_performances_of(st, devices, dev, perfs, name_string, ignore) ==
    LET device_name == Get(devices[dev], name_string)
    IN  IF IgnoreRaises(device_name, ignore)
        THEN Raise(st, "TypeError in analyze_device_performances")
        ELSE IF Ignored(device_name, ignore) THEN st
        ELSE performances_of_device(st, dev, devices[dev], device_name, perfs, 1)

RECURSIVE analyze_device_performances(_, _, _, _, _, _)
\* analyze_device_performances(device_check_performances_dict, device_name_string,
\*                             ignore_list), from the device at index dev on
analyze_device_performances(st, devices, dev, perfs, name_string, ignore) ==
    IF dev > Len(devices) \/ st.exception # "" THEN st
    ELSE analyze_device_performances(
            analyze_performances_of(st, devices, dev, perfs, name_string, ignore),
            devices, dev + 1, perfs, name_string, ignore)

RECURSIVE differences_of_device(_, _, _, _, _, _)
\* the inner loop of analyze_performance_difference, from entry k on
differences_of_device(st, dev, device_dict, device_name, diffs, k) ==
    IF k > Len(diffs) \/ st.exception # "" THEN st
    ELSE differences_of_device(
            check_device_performances(st, "difference", dev, device_name,
                                      diffs[k].warn_crit, diffs[k].name,
                                      <<Get(device_dict, diffs[k].first),
                                        Get(device_dict, diffs[k].second)>>),
            dev, device_dict, device_name, diffs, k + 1)

\* the body of the loop of analyze_performance_difference for the device at index dev
analyze_differences_of(st, devices, dev, diffs, name_string, ignore) ==
    LET device_name == Get(devices[dev], name_string)
    IN  IF IgnoreRaises(device_name, ignore)
        THEN Raise(st, "TypeError in analyze_performance_difference")
        ELSE IF Ignored(device_name, ignore) THEN st
        ELSE differences_of_device(st, dev, devices[dev], device_name, diffs, 1)

RECURSIVE analyze_performance_difference(_, _, _, _, _, _)
\* analyze_performance_difference(device_difference_dict, device_name_string,
\*                                ignore_list), from the device at index dev on
analyze_performance_difference(st, devices, dev, diffs, name_string, ignore) ==
    IF dev > Len(devices) \/ st.exception # "" THEN st
    ELSE analyze_performance_difference(
            analyze_differences_of(st, devices, dev, diffs, name_string, ignore),
            devices, dev + 1, diffs, name_string, ignore)

(***************************************************************************)
(* check_exitcodes: the report and the exit code                            *)
(***************************************************************************)
\* [x for x in lst if re.search(word, x)]
Matching(lst, word) == SelectSeq(lst, LAMBDA x : Contains(<<word>>, x))

\* any(word in x for x in lst)
AnyMatch(lst, word) == \E i \in 1..Len(lst) : Contains(<<word>>, lst[i])

\* the blank line print("\n") leaves between the regions
Separator == <<"\n">>

\* the first region: the messages of result_list, by severity word
flat_region(lst) ==
    Matching(lst, "CRITICAL") \o Matching(lst, "WARNING") \o Matching(lst, "UNKNOWN")
    \o Matching(lst, "OK")

\* what one device adds to final_result_list
rolled_up(device_name, device_details_list) ==
    IF device_details_list = <<>> THEN <<>>
    ELSE IF AnyMatch(device_details_list, "CRITICAL")
    THEN Matching(device_details_list, "CRITICAL")
    ELSE IF AnyMatch(device_details_list, "WARNING")
    THEN Matching(device_details_list, "WARNING")
    ELSE IF AnyMatch(device_details_list, "UNKNOWN")
    THEN Matching(device_details_list, "UNKNOWN")
    ELSE << <<"OK", " - ">> \o Text(device_name) \o <<" is ", "OK", ".">> >>

RECURSIVE final_result(_)
\* final_result_list, from the items of result_dict
final_result(dict) ==
    IF dict = <<>> THEN <<>>
    ELSE rolled_up(dict[1][1], dict[1][2]) \o final_result(Tail(dict))

\* the second region: the rolled-up lines that are printed
rollup_region(final) ==
    IF AnyMatch(final, "CRITICAL")
    THEN Matching(final, "CRITICAL") \o Matching(final, "WARNING")
    ELSE IF AnyMatch(final, "WARNING") THEN Matching(final, "WARNING")
    ELSE IF AnyMatch(final, "UNKNOWN") THEN Matching(final, "UNKNOWN")
    ELSE IF AnyMatch(final, "OK") THEN Matching(final, "OK")
    ELSE <<>>

\* the lines of one device in the raw dump, closed by a blank line
dump_of(device_dict) ==
    LET shown == SelectSeq(device_dict, LAMBDA item : item[1] # <<"device_part">>)
    IN  [i \in 1..Len(shown) |-> shown[i][1] \o <<"\t">> \o Text(shown[i][2])]
        \o <<Separator>>

RECURSIVE dump_region(_)
\* the third region: the properties of every device of device_part_list
dump_region(devices) ==
    IF devices = <<>> THEN <<>>
    ELSE dump_of(devices[1]) \o dump_region(Tail(devices))

\* an exit status that would be UNKNOWN when no message matches any severity word,
\* which C21 must tell from exit_code_of
exit_code_of_unknown_default(lst, final) ==
    IF AnyMatch(lst, "CRITICAL") \/ AnyMatch(final, "CRITICAL") THEN 2
    ELSE IF AnyMatch(lst, "WARNING") \/ AnyMatch(final, "WARNING") THEN 1
    ELSE IF AnyMatch(lst, "OK") \/ AnyMatch(final, "OK") THEN 0
    ELSE 3

\* the argument of sys.exit at the end of check_exitcodes
exit_code_of(lst, final) ==
    IF AnyMatch(lst, "CRITICAL") \/ AnyMatch(final, "CRITICAL") THEN 2
    ELSE IF AnyMatch(lst, "WARNING") \/ AnyMatch(final, "WARNING") THEN 1
    ELSE IF AnyMatch(lst, "UNKNOWN") \/ AnyMatch(final, "UNKNOWN") THEN 3
    ELSE 0

\* everything check_exitcodes prints
report(lst, dict, devices) ==
    flat_region(lst) \o <<Separator>> \o rollup_region(final_result(dict))
    \o <<Separator>> \o dump_region(devices)

(***************************************************************************)
(* The inputs of a run: the command lines and the answers of the data       *)
(* source that the model draws from                                         *)
(***************************************************************************)
\* the device names the data source gives, two per subcommand
Names(subcommand) ==
    CASE subcommand = "system" -> << <<"MSA 2050 SAN">>, <<"MSA 2052 SAN">> >>
      [] subcommand = "controllers" -> << <<"A">>, <<"B">> >>
      [] subcommand = "disk-groups" -> << <<"dg01">>, <<"dg02">> >>
      [] subcommand = "disks" -> << <<"disk_01.1">>, <<"disk_01.2">> >>
      [] subcommand = "fans" -> << <<"Fan 1">>, <<"Fan 2">> >>
      [] subcommand = "frus" -> << <<"RAID_IOM">>, <<"MEMORY CARD">> >>
      [] subcommand = "network-parameters" -> << <<"mgmtport_a">>, <<"mgmtport_b">> >>
      [] subcommand = "pools" -> << <<"A">>, <<"B">> >>
      [] subcommand = "ports" -> << <<"A1">>, <<"a1">> >>
      [] subcommand = "power-supplies" -> << <<"PSU 1, Left">>, <<"PSU 2, Right">> >>
      [] subcommand = "sensor-status" ->
            << <<"CPU Temperature", "-Ctlr A">>, <<"Overall Unit Status">> >>
      [] subcommand = "volumes" -> << <<"vol">>, <<"CRITICAL">> >>
      [] OTHER -> << <<"vol">>, <<"VOL">> >>

\* the values of the properties a rule does not read
Unread == <<"-">>

\* the value a healthy device gives for a property that a performance rule reads
NominalPerformance ==
    << <<LifeLeft, <<"1", "%">> >>, <<PowerOnHours, <<"1">> >>,
       <<DiskTemperature, <<"1", " C">> >>, <<<<"fan speed">>, <<"1">> >>,
       <<<<"sensor value">>, <<"1", " C">> >>,
       <<<<"pool size">>, <<"1", "0", ".", "0", "GB">> >>,
       <<<<"pool available">>, <<"9", ".", "9", "GB">> >>,
       <<<<"volume size">>, <<"1", "0", ".", "0", "GB">> >>,
       <<<<"volume allocated size">>, <<"0", ".", "1", "GB">> >>,
       <<<<"iops">>, <<"5">> >>,
       <<<<"bytes-per-second">>, <<"1", ".", "5", "MB">> >> >>
    \o [i \in 1..8 |-> <<ErrorCounterNames[i], <<"0">> >>]

\* the values of a side of a rule
SideValues(side) ==
    IF side.isList THEN {side.l[i] : i \in 1..Len(side.l)} ELSE {side.s}

\* per rule of the subcommand, the values its warning and critical sides name
RuleDeviations(subcommand) ==
    LET rules == device_parameters_dict(subcommand)
    IN  UNION {{<<rules[k].prop, v>> :
                    v \in (SideValues(rules[k].warning) \cup
                           SideValues(rules[k].critical)) \ {<<>>}} :
               k \in 1..Len(rules)}

\* further values: one that no side names, a part of a side, one that holds a
\* severity word, a property without text, a code with and without a description,
\* readings around the thresholds, a reading that is no number, and a size of which
\* a percentage is no whole tenth
OtherDeviations(subcommand) ==
    CASE subcommand = "system" ->
            { <<<<"system health">>, <<"Other">> >>, <<<<"system health">>, <<"Degr">> >>,
              <<<<"system health">>, <<"WARNING">> >>, <<<<"system health">>, None>> }
      [] subcommand = "disk-groups" ->
            { <<<<"disk-group status">>, <<"UNKN">> >>,
              <<<<"disk-group status">>, <<"XXXX">> >> }
      [] subcommand = "disks" ->
            { <<LifeLeft, <<"2", "%">> >>, <<DiskTemperature, <<"2", " C">> >>,
              <<DiskTemperature, <<"hot">> >>, <<PowerOnHours, <<"0">> >> }
      [] subcommand = "fans" -> { <<<<"fan speed">>, <<"0">> >> }
      [] subcommand = "sensor-status" -> { <<<<"sensor value">>, <<"2", " C">> >> }
      [] subcommand = "pools" ->
            { <<<<"pool available">>, <<"9", ".", "8", "GB">> >> }
      [] subcommand = "volumes" ->
            { <<<<"volume allocated size">>, <<"0", ".", "2", "GB">> >>,
              <<<<"volume size">>, <<"1", "0", ".", "5", "GB">> >> }
      [] subcommand = "volume-statistics" ->
            { <<<<"bytes-per-second">>, <<"5", "1", "2", ".", "0", "KB">> >> }
      [] OTHER -> {}

\* the rules whose sides are all drawn on: the disks subcommand draws on its health
\* rule only, its status rule has the shape of the fans' and power supplies'
Deviations(subcommand) ==
    (IF subcommand = "disks"
     THEN {d \in RuleDeviations(subcommand) : d[1] = <<"disk health">>}
     ELSE RuleDeviations(subcommand))
    \cup OtherDeviations(subcommand)

\* the value of a property of a healthy device
Nominal(subcommand, prop) ==
    LET rules == device_parameters_dict(subcommand)
    IN  IF \E k \in 1..Len(rules) : rules[k].prop = prop
        THEN rules[CHOOSE k \in 1..Len(rules) : rules[k].prop = prop].ok
        ELSE IF HasKey(NominalPerformance, prop) THEN Get(NominalPerformance, prop)
        ELSE Unread

\* the dict get_xml_data_from_api builds for one object: "device_part" first, then
\* the properties of property_dict
Device(part, names, device_name, deviation) ==
    << <<<<"device_part">>, check_url(part)>> >> \o
    [i \in 1..Len(names) |->
        <<names[i],
          IF i = 1 THEN device_name
          ELSE IF deviation # <<>> /\ deviation[1] = names[i] THEN deviation[2]
          ELSE Nominal(part, names[i])>>]

\* the objects the data source may return for a subcommand: a healthy device under
\* each name, the first name with one property deviating, and the volume whose name
\* is a severity word with a health that is not OK
DeviceUniverse(subcommand) ==
    {Device(subcommand, property_dict(subcommand), Names(subcommand)[n], <<>>) :
        n \in 1..Len(Names(subcommand))}
    \cup
    {Device(subcommand, property_dict(subcommand), Names(subcommand)[1], d) :
        d \in Deviations(subcommand)}
    \cup
    (IF subcommand = "volumes"
     THEN {Device(subcommand, property_dict(subcommand), Names(subcommand)[2],
                  <<<<"volume health">>, <<"Fault">> >>)}
     ELSE {})

\* the sequences of at most n elements of S
SeqsUpTo(S, n) == UNION {[1..k -> S] : k \in 0..n}

\* the object of disk-statistics for a disk: its id and the eight counters
Statistics(disk_id, deviation) ==
    Device("disk-statistics", property_dict("disk-statistics"), disk_id, deviation)

\* the answers to the second request of check_disks: one object per disk, all
\* counters 0 or the first counter of the first disk 1, or one object too few
StatisticsChoices(devices) ==
    LET n == Len(devices)
        id(i) == Get(devices[i], <<"disk id">>)
        plain == [i \in 1..n |-> Statistics(id(i), <<>>)]
    IN  {plain}
        \cup {[i \in 1..n |-> IF i = 1
                             THEN Statistics(id(i), <<ErrorCounterNames[1], <<"1">> >>)
                             ELSE plain[i]] : k \in {1} \cap 1..n}
        \cup {SubSeq(plain, 1, n - 1) : k \in {1} \cap 1..n}

ThresholdValues == {NotGiven} \cup 0..MaxThreshold

\* the option that holds the ignore list of the subcommand's own device family
OwnIgnoreOption(subcommand) ==
    CASE subcommand = "controllers" -> {"ignore_controller_list"}
      [] subcommand = "disks" -> {"ignore_disks_list"}
      [] subcommand = "fans" -> {"ignore_fan_list"}
      [] subcommand = "frus" -> {"ignore_fru_list"}
      [] subcommand = "network-parameters" -> {"ignore_mgmt_ports_list"}
      [] subcommand = "pools" -> {"ignore_pool_list"}
      [] subcommand = "ports" -> {"ignore_fc_ports_list"}
      [] subcommand = "power-supplies" -> {"ignore_psu_list"}
      [] subcommand = "sensor-status" -> {"ignore_sensor_list"}
      [] subcommand = "volumes" -> {"ignore_volume_list"}
      [] subcommand = "volume-statistics" -> {"ignore_volume_list"}
      [] OTHER -> {}

\* the warning and critical options that check_thresholds_scale compares, in its order
ScalePairs ==
    << <<"disk temperature", "disk_temp_warning", "disk_temp_critical">>,
       <<"pool size", "pool_size_warning", "pool_size_critical">>,
       <<"sensor temperature", "sensor_temp_warning", "sensor_temp_critical">>,
       <<"volume size", "volume_size_warning", "volume_size_critical">> >>

\* the pair of ScalePairs the subcommand evaluates, 0 if none
OwnPair(subcommand) ==
    CASE subcommand = "disks" -> 1
      [] subcommand = "pools" -> 2
      [] subcommand = "sensor-status" -> 3
      [] subcommand = "volumes" -> 4
      [] OTHER -> 0

\* the name of the first device of the subcommand as a user may type it in the
\* other case
OtherCase(subcommand) ==
    CASE subcommand \in {"controllers", "pools"} -> <<"a">>
      [] subcommand = "disks" -> <<"DISK_01.1">>
      [] subcommand = "fans" -> <<"fan 1">>
      [] subcommand = "frus" -> <<"raid_iom">>
      [] subcommand = "network-parameters" -> <<"MGMTPORT_A">>
      [] subcommand = "ports" -> <<"a1">>
      [] subcommand = "power-supplies" -> <<"psu 1, left">>
      [] subcommand = "sensor-status" -> <<"cpu temperature", "-ctlr a">>
      [] OTHER -> <<"VOL">>

\* the command lines of a subcommand: the ignore list of its own family empty,
\* naming the first device, or naming it in the other case; its own
\* warning/critical pair in every combination; for
\* disks, the ten limits all absent or all 1; for fans, the speed limit in every
\* value; for pools, also --ignore-controller B and --disk-temp-warning alone
CommandLines(subcommand) ==
    LET base == [DefaultOptions EXCEPT !.subcommand = subcommand]
        ignores == {[base EXCEPT ![o] = l] :
                        o \in OwnIgnoreOption(subcommand),
                        l \in {<<>>, <<Names(subcommand)[1]>>,
                               <<OtherCase(subcommand)>>}} \cup {base}
        pairs(S) == IF OwnPair(subcommand) = 0 THEN S
                    ELSE {[b EXCEPT ![ScalePairs[OwnPair(subcommand)][2]] = w,
                                    ![ScalePairs[OwnPair(subcommand)][3]] = c] :
                              b \in S, w \in ThresholdValues, c \in ThresholdValues}
        limits(S) == IF subcommand = "disks"
                     THEN {[o \in DOMAIN b |-> IF o \in DiskLimitOptions THEN l ELSE b[o]] :
                              b \in S, l \in {NotGiven, 1}}
                     ELSE IF subcommand = "fans"
                     THEN {[b EXCEPT !.fan_speed_low_limit = l] :
                              b \in S, l \in ThresholdValues}
                     ELSE S
        other(S) == IF subcommand = "pools"
                    THEN {[b EXCEPT !.ignore_controller_list = l,
                                    !.disk_temp_warning = w] :
                              b \in S, l \in {<<>>, << <<"B">> >>},
                              w \in {NotGiven, MaxThreshold}}
                    ELSE S
    IN  other(limits(pairs(ignores)))

(***************************************************************************)
(* The run                                                                  *)
(***************************************************************************)
VARIABLES
    options,                  \* self.options
    pc,                       \* the call of main() that is next, or how the run ended:
                              \* "reported" by check_exitcodes, "aborted" by output(),
                              \* "raised" by an exception
    requests,                 \* the number of requests.get calls made
    device_part_list,         \* self.device_part_list
    error_codes_description,  \* the keys of self.error_codes_description
    result_list,              \* self.result_list
    result_dict,              \* self.result_dict
    stdout,                   \* the lines printed
    exception,                \* the exception that ended the run, "" if none
    exit_code,                \* <<>> while the run goes on, then <<the exit status>>
    final_result_list,        \* final_result_list of check_exitcodes, once it ran
    evals                     \* the log of the evaluations made (not program state)

vars ==
    <<options, pc, requests, device_part_list, error_codes_description, result_list,
      result_dict, stdout, exception, exit_code, final_result_list, evals>>

\* the stores as the evaluators take them
Store ==
    [result_list |-> result_list, result_dict |-> result_dict, stdout |-> stdout,
     exception |-> "", evals |-> evals]

\* the stores after a pass: an exception that nothing catches ends the process with
\* a traceback and the exit status 1
AfterPass(st, next) ==
    /\ result_list' = st.result_list
    /\ result_dict' = st.result_dict
    /\ stdout' = st.stdout
    /\ evals' = st.evals
    /\ exception' = st.exception
    /\ IF st.exception # ""
       THEN pc' = "raised" /\ exit_code' = <<1>>
       ELSE pc' = next /\ exit_code' = exit_code

\* output(state, message): print the line and sys.exit(state.value); every call of
\* the program passes CheckState.WARNING, whose value is 1
output(lines) ==
    /\ stdout' = stdout \o lines
    /\ pc' = "aborted"
    /\ exit_code' = <<1>>
    /\ exception' = ""

WarningLine(message) == <<"WARNING", " - ">> \o message

Init ==
    /\ options \in UNION {CommandLines(s) : s \in Subcommands}
    /\ pc = "main"
    /\ requests = 0
    /\ device_part_list = <<>>
    /\ error_codes_description = {}
    /\ result_list = <<>>
    /\ result_dict = <<>>
    /\ stdout = <<>>
    /\ exception = ""
    /\ exit_code = <<>>
    /\ final_result_list = <<>>
    /\ evals = <<>>

\* check_scale for the pair at index k of ScalePairs: "" when it passes, else how it
\* ends the run
check_scale(opts, k) ==
    LET warning == opts[ScalePairs[k][2]]
        critical == opts[ScalePairs[k][3]]
    IN  IF ~(Truthy(warning) \/ Truthy(critical)) THEN ""
        ELSE IF IsNone(warning) \/ IsNone(critical) THEN "TypeError"
        ELSE IF warning > critical THEN "output"
        ELSE ""

\* the first pair of ScalePairs that ends the run, 0 if every pair passes
first_failing_pair(opts) ==
    IF \E k \in 1..Len(ScalePairs) : check_scale(opts, k) # ""
    THEN CHOOSE k \in 1..Len(ScalePairs) :
            /\ check_scale(opts, k) # ""
            /\ \A j \in 1..(k - 1) : check_scale(opts, j) = ""
    ELSE 0

\* main(): self.check_thresholds_scale()
check_thresholds_scale ==
    /\ pc = "main"
    /\ LET k == first_failing_pair(options)
       IN  IF k = 0
           THEN /\ pc' = "login"
                /\ UNCHANGED <<stdout, exception, exit_code>>
           ELSE IF check_scale(options, k) = "output"
           THEN output(<<WarningLine(<<ScalePairs[k][1],
                    " warning threshold must be lower then critical threshold! ">>)>>)
           ELSE /\ pc' = "raised"
                /\ exception' = "TypeError in check_scale"
                /\ exit_code' = <<1>>
                /\ UNCHANGED stdout
    /\ UNCHANGED <<options, requests, device_part_list, error_codes_description,
                   result_list, result_dict, final_result_list, evals>>

\* how a requests.get inside get_response_code may end
Responses == {"200", "status", "exception"}

\* a failed request that would end the run under the UNKNOWN exit status, which C18
\* must tell from failed_response
failed_response_unknown(response) ==
    /\ stdout' = Append(stdout, <<"WARNING", " - ", "Connection timed out">>)
    /\ pc' = "aborted"
    /\ exit_code' = <<3>>
    /\ exception' = ""

\* get_response_code when the request fails: the bare except also catches the
\* SystemExit that output() raises inside the try block, and calls output() again
failed_response(response) ==
    IF response = "status"
    THEN output(<<WarningLine(<<"Request failed with status code">>),
                  WarningLine(<<"Connection timed out">>)>>)
    ELSE output(<<WarningLine(<<"Connection timed out">>)>>)

\* main(): self.get_session_key(hostname, login_sha256)
get_session_key ==
    /\ pc = "login"
    /\ requests' = requests + 1
    /\ \E response \in Responses :
          IF response = "200"
          THEN /\ pc' = "subcommand"
               /\ UNCHANGED <<stdout, exception, exit_code>>
          ELSE failed_response(response)
    /\ UNCHANGED <<options, device_part_list, error_codes_description, result_list,
                   result_dict, final_result_list, evals>>

\* the pass of check_<subcommand> that follows the one named
NextPass(opts, after) ==
    LET s == opts.subcommand
        has_parameters == device_parameters_dict(s) # <<>>
        has_performances == s \in {"disks", "fans", "sensor-status"}
        has_difference ==
            \/ s = "volume-statistics"
            \/ s = "pools" /\ (Truthy(opts.pool_size_warning)
                               \/ ~IsNone(opts.pool_size_critical))
            \/ s = "volumes" /\ (Truthy(opts.volume_size_warning)
                                 \/ ~IsNone(opts.volume_size_critical))
    IN  IF after = "fetch" /\ has_parameters THEN "parameters"
        ELSE IF after \in {"fetch", "parameters"} /\ has_performances
        THEN "performances"
        ELSE IF after \in {"fetch", "parameters", "performances"} /\ has_difference
        THEN "difference"
        ELSE "check_exitcodes"

\* check_<subcommand>: self.device_part_list = self.get_xml_data_from_api(...)
\* A property that an object lacks ends the run in the except clause of the loop
get_xml_data_from_api ==
    /\ pc = "subcommand"
    /\ requests' = requests + 1
    /\ error_codes_description' = error_codes(options.subcommand)
    /\ \E response \in Responses \cup {"property error"} :
          IF response = "200"
          THEN /\ \E devices \in SeqsUpTo(DeviceUniverse(options.subcommand), MaxDevices) :
                      device_part_list' = devices
               /\ pc' = IF options.subcommand = "disks" THEN "statistics"
                        ELSE NextPass(options, "fetch")
               /\ UNCHANGED <<stdout, exception, exit_code>>
          ELSE IF response = "property error"
          THEN /\ output(<<WarningLine(<<"error. Please check xml output!">>)>>)
               /\ UNCHANGED device_part_list
          ELSE /\ failed_response(response)
               /\ UNCHANGED device_part_list
    /\ UNCHANGED <<options, result_list, result_dict, final_result_list, evals>>

\* check_disks: the request of check_disk_statistics and the merge of the two lists
check_disk_statistics ==
    /\ pc = "statistics"
    /\ requests' = requests + 1
    /\ \E response \in Responses \cup {"property error"} :
          IF response = "200"
          THEN \E disk_statistics_list \in StatisticsChoices(device_part_list) :
                  IF Len(device_part_list) = Len(disk_statistics_list)
                  THEN /\ device_part_list' =
                            [i \in 1..Len(device_part_list) |->
                                Merge(device_part_list[i], disk_statistics_list[i])]
                       /\ pc' = NextPass(options, "fetch")
                       /\ UNCHANGED <<stdout, exception, exit_code>>
                  ELSE /\ output(<<WarningLine(<<"BUG, subcommand error.">>)>>)
                       /\ UNCHANGED device_part_list
          ELSE IF response = "property error"
          THEN /\ output(<<WarningLine(<<"error. Please check xml output!">>)>>)
               /\ UNCHANGED device_part_list
          ELSE /\ failed_response(response)
               /\ UNCHANGED device_part_list
    /\ UNCHANGED <<options, error_codes_description, result_list, result_dict,
                   final_result_list, evals>>

\* check_<subcommand>: self.analyze_device_parameters(...)
analyze_parameters ==
    /\ pc = "parameters"
    /\ AfterPass(analyze_device_parameters(Store, device_part_list, 1,
                    device_parameters_dict(options.subcommand),
                    device_name_string(options.subcommand), ignore_list(options),
                    error_codes_description),
                 NextPass(options, "parameters"))
    /\ UNCHANGED <<options, requests, device_part_list, error_codes_description,
                   final_result_list>>

\* check_<subcommand>: self.analyze_device_performances(...)
analyze_performances ==
    /\ pc = "performances"
    /\ AfterPass(analyze_device_performances(Store, device_part_list, 1,
                    device_check_performance_dict(options),
                    device_name_string(options.subcommand), ignore_list(options)),
                 NextPass(options, "performances"))
    /\ UNCHANGED <<options, requests, device_part_list, error_codes_description,
                   final_result_list>>

\* check_<subcommand>: self.analyze_performance_difference(...)
analyze_difference ==
    /\ pc = "difference"
    /\ AfterPass(analyze_performance_difference(Store, device_part_list, 1,
                    device_difference_dict(options),
                    device_name_string(options.subcommand), ignore_list(options)),
                 "check_exitcodes")
    /\ UNCHANGED <<options, requests, device_part_list, error_codes_description,
                   final_result_list>>

\* main(): self.check_exitcodes(self.result_list, self.result_dict)
check_exitcodes ==
    /\ pc = "check_exitcodes"
    /\ final_result_list' = final_result(result_dict)
    /\ stdout' = stdout \o report(result_list, result_dict, device_part_list)
    /\ exit_code' = <<exit_code_of(result_list, final_result(result_dict))>>
    /\ pc' = "reported"
    /\ UNCHANGED <<options, requests, device_part_list, error_codes_description,
                   result_list, result_dict, exception, evals>>

Next ==
    \/ check_thresholds_scale
    \/ get_session_key
    \/ get_xml_data_from_api
    \/ check_disk_statistics
    \/ analyze_parameters
    \/ analyze_performances
    \/ analyze_difference
    \/ check_exitcodes

Spec == Init /\ [][Next]_vars

\* main() runs its calls one after the other on one thread, and the one call that
\* waits, requests.get, has timeout=5: a step that can be taken is taken
FairSpec == Init /\ [][Next]_vars /\ WF_vars(Next)

(***************************************************************************)
(* Properties of the run                                                    *)
(***************************************************************************)
\* the name check_<subcommand> evaluates the device at index dev under
DeviceName(dev) == Get(device_part_list[dev], device_name_string(options.subcommand))

\* the severity a message is tagged with
Tag(message) == message[1]

Tags(lst) == {Tag(lst[i]) : i \in 1..Len(lst)}

\* the messages of lst that are about the device named n: after the tag, every
\* message opens with the name
LinesOf(n, lst) ==
    SelectSeq(lst, LAMBDA l : /\ Len(l) >= 2 + Len(Text(n))
                              /\ SubSeq(l, 3, 2 + Len(Text(n))) = Text(n))

RECURSIVE AllMessages(_)
\* the messages of the per-device mapping, device after device
AllMessages(dict) ==
    IF dict = <<>> THEN <<>> ELSE dict[1][2] \o AllMessages(Tail(dict))

\* the evaluations of a pass
EvalsOf(pass) == {i \in 1..Len(evals) : evals[i].pass = pass}

\* value is one of the values a side of a rule names
Member(value, side) == IF side.isList THEN InList(value, side.l) ELSE value = side.s

\* the severity the precedence order gives a value: critical, then warning, then
\* the ok value, else unknown
Precedence(rule, value) ==
    IF Member(value, rule.critical) THEN "CRITICAL"
    ELSE IF Member(value, rule.warning) THEN "WARNING"
    ELSE IF value = rule.ok THEN "OK"
    ELSE "UNKNOWN"

\* the worst of a set of severities
Worst(S) ==
    IF "CRITICAL" \in S THEN "CRITICAL"
    ELSE IF "WARNING" \in S THEN "WARNING"
    ELSE IF "UNKNOWN" \in S THEN "UNKNOWN"
    ELSE "OK"

\* the exit status that stands for a severity
ExitStatus(severity) ==
    CASE severity = "CRITICAL" -> 2
      [] severity = "WARNING" -> 1
      [] severity = "UNKNOWN" -> 3
      [] OTHER -> 0

\* the ignore list the analyze passes of the run are given holds the name
InGivenIgnoreList(n) == ignore_list(options).isList /\ InList(n, ignore_list(options).l)

\* the parameter pass of the run is over (or the run has no such pass)
PastParameters == pc \in {"performances", "difference", "check_exitcodes", "reported"}

\* C1: every parameter evaluation that records a finding records CRITICAL when the
\* value is a member of the critical side, otherwise WARNING when it is a member of
\* the warning side, otherwise OK when it equals the ok value, otherwise UNKNOWN.
C1_Precedence ==
    \A i \in EvalsOf("parameter") :
        evals[i].status # "" =>
            evals[i].status = Precedence(evals[i].rule, evals[i].value)

\* the rule with each scalar side written as the one-element list
Listed(rule) ==
    LET listed(side) == IF side.isList THEN side ELSE List(<<side.s>>)
    IN  [rule EXCEPT !.warning = listed(rule.warning), !.critical = listed(rule.critical)]

\* the severity check_device_parameter gives the value under the rule, "raised" if it
\* raises
SeverityUnder(rule, value) ==
    LET st == check_device_parameter(
                [result_list |-> <<>>, result_dict |-> <<>>, stdout |-> <<>>,
                 exception |-> "", evals |-> <<>>],
                1, <<"x">>, rule, value, {})
    IN  IF st.exception # "" THEN "raised" ELSE st.evals[1].status

\* C2: a parameter evaluation under a rule with a scalar side gives the severity that
\* the same rule gives with the side written as a one-element list, and a scalar
\* warning side that matched did so for a value equal to it.
C2_ScalarAsOneElementList ==
    \A i \in EvalsOf("parameter") :
        /\ SeverityUnder(evals[i].rule, evals[i].value)
              = SeverityUnder(Listed(evals[i].rule), evals[i].value)
        /\ (~evals[i].rule.warning.isList /\ evals[i].status = "WARNING")
              => evals[i].value = evals[i].rule.warning.s

\* C3: once check_exitcodes has run, the exit status is that of the worst severity
\* among the messages of the flat list and the rolled-up lines: 2 for CRITICAL, else
\* 1 for WARNING, else 3 for UNKNOWN, else 0.
C3_ExitCodeIsWorstSeverity ==
    pc = "reported" =>
        exit_code = <<ExitStatus(Worst(Tags(result_list) \cup Tags(final_result_list)))>>

\* the names of the devices that have a finding, and the severities of their findings
NamesWithFindings == {evals[i].device_name : i \in {j \in 1..Len(evals) : evals[j].status # ""}}

FindingsOf(n) ==
    {evals[i].status : i \in {j \in 1..Len(evals) : /\ evals[j].device_name = n
                                                    /\ evals[j].status # ""}}

\* the synthesized line of a device
IsOkLine(n) == <<"OK", " - ">> \o Text(n) \o <<" is ", "OK", ".">>

\* C4: once check_exitcodes has run, every device with a finding has rolled-up lines,
\* all tagged with the worst severity among its findings of both kinds, and the line
\* "OK - <device> is OK." is among them only if none of its findings is CRITICAL,
\* WARNING or UNKNOWN.
C4_RollupIsWorstOfDevice ==
    pc = "reported" =>
        \A n \in NamesWithFindings :
            /\ LinesOf(n, final_result_list) # <<>>
            /\ Tags(LinesOf(n, final_result_list)) = {Worst(FindingsOf(n))}
            /\ InList(IsOkLine(n), final_result_list) => Worst(FindingsOf(n)) = "OK"

\* C5: once the parameter pass is over, every device outside the ignore list given to
\* the pass has, for every rule of the subcommand, exactly one evaluation, which
\* recorded a message; and the stores hold one message per parameter evaluation
\* besides those of the performance evaluations.
C5_OneMessagePerProperty ==
    LET rules == device_parameters_dict(options.subcommand)
    IN  /\ PastParameters =>
              \A dev \in 1..Len(device_part_list) : \A k \in 1..Len(rules) :
                  ~InGivenIgnoreList(DeviceName(dev)) =>
                      /\ Cardinality({i \in EvalsOf("parameter") :
                                         /\ evals[i].dev = dev
                                         /\ evals[i].prop = rules[k].prop}) = 1
                      /\ \A i \in EvalsOf("parameter") :
                            (evals[i].dev = dev /\ evals[i].prop = rules[k].prop)
                                => evals[i].store # "none"
        /\ Len(result_list) + Len(AllMessages(result_dict))
              = Cardinality(EvalsOf("parameter"))
                + Cardinality({i \in 1..Len(evals) : /\ evals[i].pass # "parameter"
                                                     /\ evals[i].store # "none"})

\* a line of performance data about the device named n
IsPerfLineOf(n, line) == line[1] = "|" /\ Contains(Text(n), line)

\* C6: a device whose name is in the ignore list given to the analyze passes has no
\* evaluation, no message in the flat list, no entry in the per-device mapping and no
\* line of performance data; once check_exitcodes has run, its properties are in the
\* raw dump that was printed.
C6_IgnoredDeviceOnlyInDump ==
    \A dev \in 1..Len(device_part_list) :
        InGivenIgnoreList(DeviceName(dev)) =>
            /\ \A i \in 1..Len(evals) : evals[i].device_name # DeviceName(dev)
            /\ LinesOf(DeviceName(dev), result_list) = <<>>
            /\ ~HasKey(result_dict, DeviceName(dev))
            /\ \A k \in 1..Len(stdout) : ~IsPerfLineOf(DeviceName(dev), stdout[k])
            /\ pc = "reported" => Contains(dump_of(device_part_list[dev]), stdout)

\* a run that reported, with an ignored device and another device that both the
\* parameter pass and a second pass evaluated
C6_Witness ==
    /\ pc = "reported"
    /\ \E dev \in 1..Len(device_part_list) : InGivenIgnoreList(DeviceName(dev))
    /\ EvalsOf("parameter") # {}
    /\ \E i \in 1..Len(evals) : evals[i].pass # "parameter" /\ evals[i].perfdata

\* C7: in the pools subcommand a pool named in --ignore-pool has no evaluation and no
\* message, and every pool not named there is evaluated by the parameter pass
\* whatever the other ignore lists hold.
C7_PoolsUseIgnorePool ==
    options.subcommand = "pools" =>
        \A dev \in 1..Len(device_part_list) :
            IF InList(DeviceName(dev), options.ignore_pool_list)
            THEN /\ \A i \in 1..Len(evals) : evals[i].device_name # DeviceName(dev)
                 /\ LinesOf(DeviceName(dev), result_list) = <<>>
                 /\ ~HasKey(result_dict, DeviceName(dev))
            ELSE PastParameters =>
                    \E i \in EvalsOf("parameter") : evals[i].dev = dev

\* the pair at index k of ScalePairs has both values supplied, the warning above the
\* critical
Exceeds(k) ==
    /\ ~IsNone(options[ScalePairs[k][2]])
    /\ ~IsNone(options[ScalePairs[k][3]])
    /\ options[ScalePairs[k][2]] > options[ScalePairs[k][3]]

\* C8: when a supplied warning threshold exceeds its critical counterpart, no request
\* is ever made and no finding recorded, and the run ends in check_thresholds_scale
\* with one WARNING line and the exit status 1; when no warning exceeds its critical,
\* the run is not ended by the scale check.
C8_ScaleCheckBeforeNetwork ==
    IF \E k \in 1..Len(ScalePairs) : Exceeds(k)
    THEN /\ requests = 0
         /\ evals = <<>> /\ result_list = <<>> /\ result_dict = <<>>
         /\ pc # "main" =>
                /\ pc = "aborted"
                /\ exit_code = <<1>>
                /\ Len(stdout) = 1 /\ Tag(stdout[1]) = "WARNING"
    ELSE ~(pc = "aborted" /\ requests = 0)

\* the metrics of the run with their thresholds
Metrics ==
    [i \in 1..Len(device_check_performance_dict(options)) |->
        [name |-> device_check_performance_dict(options)[i].prop,
         warn_crit |-> device_check_performance_dict(options)[i].warn_crit]]
    \o [i \in 1..Len(device_difference_dict(options)) |->
        [name |-> device_difference_dict(options)[i].name,
         warn_crit |-> device_difference_dict(options)[i].warn_crit]]

Unconfigured(warn_crit) == IsNone(warn_crit[1]) \/ IsNone(warn_crit[2])

\* C9: a metric of the run with a threshold that is not configured has no evaluation,
\* and a threshold that is not configured never makes the scale check or the
\* evaluation of a metric raise.
C9_UnconfiguredMetricSkipped ==
    /\ \A m \in 1..Len(Metrics) :
          Unconfigured(Metrics[m].warn_crit) =>
              \A i \in 1..Len(evals) :
                  evals[i].pass = "parameter" \/ evals[i].prop # Metrics[m].name
    /\ (\/ \E m \in 1..Len(Metrics) : Unconfigured(Metrics[m].warn_crit)
        \/ \E k \in 1..Len(ScalePairs) :
              Unconfigured(<<options[ScalePairs[k][2]], options[ScalePairs[k][3]]>>))
          => exception \notin {"TypeError in check_scale",
                               "TypeError in check_device_performances"}

\* the value matches no side of the rule
MatchesNoSide(rule, value) == Precedence(rule, value) = "UNKNOWN"

\* C10: a value that matches no side of its rule is recorded as UNKNOWN in the flat
\* list; the pass goes on, so that every property of every device outside the ignore
\* list is evaluated; once check_exitcodes has run the UNKNOWN message is printed, and
\* with no message tagged CRITICAL or WARNING in either store the exit status is 3.
C10_NoMatchIsUnknown ==
    LET rules == device_parameters_dict(options.subcommand)
        unknown(i) == /\ evals[i].pass = "parameter"
                      /\ MatchesNoSide(evals[i].rule, evals[i].value)
        stored == Tags(result_list) \cup Tags(AllMessages(result_dict))
    IN  /\ \A i \in 1..Len(evals) :
              unknown(i) => evals[i].status = "UNKNOWN" /\ evals[i].store = "list"
        /\ (PastParameters \/ pc = "raised") =>
              \A dev \in 1..Len(device_part_list) : \A k \in 1..Len(rules) :
                  ~InGivenIgnoreList(DeviceName(dev)) =>
                      \E i \in EvalsOf("parameter") :
                          evals[i].dev = dev /\ evals[i].prop = rules[k].prop
        /\ pc = "reported" =>
              /\ \A i \in 1..Len(evals) :
                    unknown(i) =>
                        InList(Message("UNKNOWN",
                                       Text(evals[i].device_name) \o <<" ">>
                                       \o evals[i].prop \o <<" is ">>
                                       \o Text(evals[i].value), <<".">>), stdout)
              /\ ((\E i \in 1..Len(evals) : unknown(i))
                  /\ "CRITICAL" \notin stored /\ "WARNING" \notin stored)
                    => exit_code = <<3>>

\* the evaluations of the performance pass and the difference pass
PerformanceEvals == {i \in 1..Len(evals) : evals[i].pass # "parameter"}

\* the per-device mapping holds, under the device of the evaluation, the message
\* made of its severity and the text
RecordedUnderDevice(e, text) ==
    /\ e.store = "dict"
    /\ HasKey(result_dict, e.device_name)
    /\ InList(Message(e.status, Text(e.device_name) \o text, <<".">>),
              Get(result_dict, e.device_name))

\* the evaluation is one of a temperature: the disk temperature, or the value of a
\* sensor named as a temperature sensor
IsTemperature(e) ==
    \/ e.prop = DiskTemperature
    \/ e.prop = <<"sensor value">> /\ Contains(<<"CPU Temperature">>, e.device_name)

\* C11: an evaluated temperature v with thresholds w <= c has one finding in the
\* per-device mapping: CRITICAL if v >= c, WARNING if w <= v < c, OK if v < w.
C11_TemperatureThreeWay ==
    \A i \in PerformanceEvals :
        (IsTemperature(evals[i]) /\ evals[i].rule[1] <= evals[i].rule[2]) =>
            LET v == IntOf(Without(evals[i].value, " C"))
                w == evals[i].rule[1]
                c == evals[i].rule[2]
            IN  /\ evals[i].status = IF v >= c THEN "CRITICAL"
                                     ELSE IF v >= w THEN "WARNING" ELSE "OK"
                /\ RecordedUnderDevice(evals[i], <<" temperature ">> \o IntText(v)
                                                 \o <<" C">>)

\* a run that reported a temperature between its warning and its critical threshold
C11_Witness ==
    /\ pc = "reported"
    /\ \E i \in PerformanceEvals :
          /\ IsTemperature(evals[i])
          /\ evals[i].rule[1] <= IntOf(Without(evals[i].value, " C"))
          /\ IntOf(Without(evals[i].value, " C")) < evals[i].rule[2]
          /\ evals[i].status = "WARNING"

\* the evaluation is one of the usage of a pool or of a volume
IsUsage(e) == e.prop \in {<<"pool usage">>, <<"volume usage">>}

\* the used size of a usage evaluation, in tenths of a GB: the total less the
\* available size for a pool, the allocated size for a volume
UsedTenths(e) ==
    IF e.prop = <<"pool usage">>
    THEN FloatTenths(Without(e.value[1], "GB")) - FloatTenths(Without(e.value[2], "GB"))
    ELSE FloatTenths(Without(e.value[2], "GB"))

\* C12: an evaluated usage with percentages w <= c is CRITICAL if used >= c * total /
\* 100, WARNING if w * total / 100 <= used < c * total / 100, and OK otherwise, with
\* used = total - available for a pool and used = allocated for a volume (the sizes in
\* tenths of a GB, both sides of each comparison multiplied by 100).
C12_UsageThreeWay ==
    \A i \in PerformanceEvals :
        (IsUsage(evals[i]) /\ evals[i].rule[1] <= evals[i].rule[2]) =>
            LET total == FloatTenths(Without(evals[i].value[1], "GB"))
                used == UsedTenths(evals[i])
            IN  evals[i].status =
                    IF used * 100 >= evals[i].rule[2] * total THEN "CRITICAL"
                    ELSE IF used * 100 >= evals[i].rule[1] * total THEN "WARNING"
                    ELSE "OK"

\* the evaluation is one of a low-side metric: the life left of a disk or the speed
\* of a fan
IsLowSide(e) == e.prop \in {LifeLeft, <<"fan speed">>}

\* the text the message of a low-side evaluation holds after the device name
LowSideText(e, v) ==
    IF e.prop = LifeLeft THEN <<" life left is ">> \o IntText(v) \o <<" %">>
    ELSE <<" speed ">> \o IntText(v) \o <<" rpm">>

\* C13: an evaluated life left or fan speed v with threshold w is WARNING exactly
\* when v <= w and OK exactly when v > w, never CRITICAL, and the finding is in the
\* per-device mapping.
C13_LowSideAlarm ==
    \A i \in PerformanceEvals :
        IsLowSide(evals[i]) =>
            LET v == IntOf(Without(evals[i].value, "%"))
                w == evals[i].rule[1]
            IN  /\ evals[i].status = IF v <= w THEN "WARNING" ELSE "OK"
                /\ RecordedUnderDevice(evals[i], LowSideText(evals[i], v))

\* a run that reported a fan at its limit and a fan above it
C13_Witness ==
    /\ pc = "reported"
    /\ \E i \in PerformanceEvals :
          /\ evals[i].prop = <<"fan speed">>
          /\ IntOf(evals[i].value) = evals[i].rule[1]
          /\ evals[i].status = "WARNING"
    /\ \E i \in PerformanceEvals :
          /\ evals[i].prop = <<"fan speed">>
          /\ IntOf(evals[i].value) > evals[i].rule[1]
          /\ evals[i].status = "OK"

\* the evaluation is one of a high-side metric with one threshold: the power on
\* hours of a disk or one of its eight error counters
IsHighSide(e) == e.prop = PowerOnHours \/ InList(e.prop, ErrorCounterNames)

\* the text the message of a high-side evaluation holds after the device name
HighSideText(e, v) ==
    IF e.prop = PowerOnHours THEN <<" power on hours are ">> \o IntText(v) \o <<" hours">>
    ELSE <<" has '">> \o e.prop \o <<"' ">> \o IntText(v) \o <<" errors. (limit: ">>
         \o IntText(e.rule[1]) \o <<")">>

\* C14: an evaluated power on hours or error counter v with threshold w is WARNING
\* exactly when v >= w and OK exactly when v < w, never CRITICAL, and the finding is
\* in the per-device mapping.
C14_HighSideAlarm ==
    \A i \in PerformanceEvals :
        IsHighSide(evals[i]) =>
            LET v == IntOf(evals[i].value)
                w == evals[i].rule[1]
            IN  /\ evals[i].status = IF v >= w THEN "WARNING" ELSE "OK"
                /\ RecordedUnderDevice(evals[i], HighSideText(evals[i], v))

\* a run that reported an error counter below its limit and the power on hours at
\* their limit
C14_Witness ==
    /\ pc = "reported"
    /\ \E i \in PerformanceEvals :
          /\ InList(evals[i].prop, ErrorCounterNames)
          /\ IntOf(evals[i].value) < evals[i].rule[1]
          /\ evals[i].status = "OK"
    /\ \E i \in PerformanceEvals :
          /\ evals[i].prop = PowerOnHours
          /\ IntOf(evals[i].value) = evals[i].rule[1]
          /\ evals[i].status = "WARNING"

\* the place in stdout of the n-th blank line that check_exitcodes printed
SeparatorAt(n) ==
    CHOOSE k \in 1..Len(stdout) :
        /\ stdout[k] = Separator
        /\ Cardinality({j \in 1..k : stdout[j] = Separator}) = n

\* the flat region as printed: the lines before the first blank line, without the
\* lines of performance data that the passes printed before the report
FlatPrinted ==
    SelectSeq(SubSeq(stdout, 1, SeparatorAt(1) - 1), LAMBDA l : l[1] # "|")

\* the rollup region as printed: the lines between the first two blank lines
RollupPrinted == SubSeq(stdout, SeparatorAt(1) + 1, SeparatorAt(2) - 1)

\* the messages of a list that carry the severity tag
Tagged(lst, tag) == SelectSeq(lst, LAMBDA m : Tag(m) = tag)

\* C15: the flat region of the report is the CRITICAL messages of the flat list, then
\* its WARNING, its UNKNOWN and its OK messages, each group in the order of the list
\* (the order of evaluation) and an empty group printing nothing.
C15_FlatRegionBySeverity ==
    pc = "reported" =>
        FlatPrinted = Tagged(result_list, "CRITICAL") \o Tagged(result_list, "WARNING")
                      \o Tagged(result_list, "UNKNOWN") \o Tagged(result_list, "OK")

\* the place of a severity in the order of the groups
GroupRank(tag) ==
    CASE tag = "CRITICAL" -> 1
      [] tag = "WARNING" -> 2
      [] tag = "UNKNOWN" -> 3
      [] OTHER -> 4

\* C16: every rolled-up line is printed in the rollup region, the printed lines are
\* in the order of the groups CRITICAL, WARNING, UNKNOWN, OK, and when a rolled-up
\* line is CRITICAL the WARNING lines are printed as well.
C16_RollupRegionBySeverity ==
    pc = "reported" =>
        /\ \A k \in 1..Len(final_result_list) : InList(final_result_list[k], RollupPrinted)
        /\ \A i, j \in 1..Len(RollupPrinted) :
              i < j => GroupRank(Tag(RollupPrinted[i])) <= GroupRank(Tag(RollupPrinted[j]))
        /\ \A k \in 1..Len(RollupPrinted) : InList(RollupPrinted[k], final_result_list)

\* C17: a run that output() ended (a failed request, a response that is not 200, a
\* property that cannot be extracted, a warning threshold above its critical one, a
\* disk list that does not match its statistics) has printed exactly one line, of the
\* form "<SEVERITY> - <message>", and its exit status is the one of that severity.
C17_AbortPrintsOneLine ==
    pc = "aborted" =>
        /\ Len(stdout) = 1
        /\ Tag(stdout[1]) \in {"OK", "WARNING", "CRITICAL", "UNKNOWN"}
        /\ stdout[1][2] = " - "
        /\ exit_code = <<ExitStatus(Tag(stdout[1]))>>

\* a line that only get_response_code prints when the request did not succeed
TimedOutLine == WarningLine(<<"Connection timed out">>)

\* C18: a run that ended on a failed request or on a response that is not 200, at the
\* login or at a retrieval of device data, ended with WARNING and exit status 1: no
\* property was evaluated, no finding is recorded, and stdout holds no line of
\* performance data and no region of the report.
C18_FailedRequestEndsRun ==
    (pc = "aborted" /\ InList(TimedOutLine, stdout)) =>
        /\ exit_code = <<1>>
        /\ \A k \in 1..Len(stdout) : Tag(stdout[k]) = "WARNING"
        /\ stdout[Len(stdout)] = TimedOutLine
        /\ evals = <<>> /\ result_list = <<>> /\ result_dict = <<>>
        /\ final_result_list = <<>>
        /\ \A k \in 1..Len(stdout) : stdout[k] # Separator /\ stdout[k][1] # "|"

\* the second retrieval of the disks subcommand fails after the login and the first
\* retrieval succeeded
C18_Witness ==
    /\ pc = "aborted" /\ InList(TimedOutLine, stdout)
    /\ options.subcommand = "disks" /\ requests = 3
    /\ device_part_list # <<>>

\* the value is not the whole number, with its unit, that the kind of the metric
\* requires
NoNumber(prop, value) ==
    CASE Contains(<<"life left">>, prop) -> ~IsIntText(Without(value, "%"))
      [] Contains(<<"temperature">>, prop) -> ~IsIntText(Without(value, " C"))
      [] \/ Contains(<<"power on hours">>, prop)
         \/ Contains(<<"fan speed">>, prop)
         \/ IsErrorCounter(prop) -> ~IsIntText(value)
      [] OTHER -> FALSE

\* a device outside the ignore list has, for a metric whose thresholds are both
\* configured, a value that is no number
UnparseableReading ==
    \E dev \in 1..Len(device_part_list) : \E m \in 1..Len(Metrics) :
        /\ ~InGivenIgnoreList(DeviceName(dev))
        /\ ~Unconfigured(Metrics[m].warn_crit)
        /\ HasKey(device_part_list[dev], Metrics[m].name)
        /\ NoNumber(Metrics[m].name, Get(device_part_list[dev], Metrics[m].name))

PropertyErrorLine == WarningLine(<<"error. Please check xml output!">>)

\* C19: a run over devices of which one has, for a configured metric, a value that
\* is no number ends by a WARNING line and exit status 1, with no report printed; and
\* so does a run in which a property is missing from the data of a device.
C19_UnparseableEndsWithWarning ==
    /\ (pc \in {"reported", "raised", "aborted"} /\ UnparseableReading) =>
          /\ pc = "aborted"
          /\ exit_code = <<1>>
          /\ Tag(stdout[Len(stdout)]) = "WARNING"
    /\ InList(PropertyErrorLine, stdout) =>
          /\ pc = "aborted"
          /\ exit_code = <<1>>
          /\ stdout[Len(stdout)] = PropertyErrorLine

\* the evaluation is one of a temperature sensor of either name
IsSensorTemperature(e) ==
    /\ e.prop = <<"sensor value">>
    /\ \/ Contains(<<"CPU Temperature">>, e.device_name)
       \/ Contains(<<"Disk Controller Temperature">>, e.device_name)

\* the evaluation is one of the metric kinds: life left, power on hours, temperature,
\* usage of a pool or a volume, an error counter, fan speed, iops
IsMetricKind(e) ==
    \/ e.prop \in {LifeLeft, PowerOnHours, DiskTemperature, <<"fan speed">>,
                   <<"iops usage">>}
    \/ IsSensorTemperature(e)
    \/ IsUsage(e)
    \/ InList(e.prop, ErrorCounterNames)

\* what a line of performance data holds right after the name of the device, for the
\* metric of the evaluation
MetricLabel(e) ==
    CASE e.prop = LifeLeft -> <<" life left=">>
      [] e.prop = PowerOnHours -> <<" power on hours=">>
      [] e.prop = DiskTemperature \/ IsSensorTemperature(e) -> <<" temperature=">>
      [] IsUsage(e) -> <<" GB=">>
      [] e.prop = <<"fan speed">> -> <<" speed=">>
      [] e.prop = <<"iops usage">> -> <<" iops=">>
      [] OTHER -> <<" ">> \o e.prop \o <<"=">>

\* stdout holds a line of performance data for the device and the metric of the
\* evaluation
HasPerfLine(e) ==
    LET opening == <<"|">> \o Text(e.device_name) \o MetricLabel(e)
    IN  \E k \in 1..Len(stdout) :
            /\ Len(stdout[k]) >= Len(opening)
            /\ SubSeq(stdout[k], 1, Len(opening)) = opening

\* C20: every evaluation of the performance pass or the difference pass, of each of
\* the metric kinds (life left, power on hours, temperature, usage of a pool or a
\* volume, error counters, fan speed, iops), has its line of performance data on
\* stdout.
C20_EveryMetricHasPerfLine ==
    \A i \in PerformanceEvals : IsMetricKind(evals[i]) => HasPerfLine(evals[i])

\* the retrievals of the run are over
Retrieved ==
    \/ pc \in {"parameters", "performances", "difference", "check_exitcodes", "reported"}
    \/ pc = "raised" /\ requests >= 2

\* C21: a run whose retrieval returned zero devices evaluates nothing, keeps both
\* stores empty and raises nothing; once check_exitcodes has run, stdout holds the two
\* blank lines that close the flat and the rollup region and nothing else, no line is
\* rolled up, and the exit status is 0.
C21_ZeroDevicesExitZero ==
    (Retrieved /\ device_part_list = <<>>) =>
        /\ pc # "raised"
        /\ evals = <<>> /\ result_list = <<>> /\ result_dict = <<>>
        /\ pc = "reported" =>
              /\ stdout = <<Separator, Separator>>
              /\ final_result_list = <<>>
              /\ exit_code = <<0>>

\* a disks run with thresholds configured reports over zero disks
C21_Witness ==
    /\ pc = "reported" /\ device_part_list = <<>>
    /\ options.subcommand = "disks" /\ requests = 3
    /\ ~IsNone(options.disk_temp_warning) /\ ~IsNone(options.disk_temp_critical)

\* the evaluations of the iops and transfer metric
IopsEvals == {i \in PerformanceEvals : evals[i].prop = <<"iops usage">>}

\* the distance of two naturals
Distance(a, b) == IF a >= b THEN a - b ELSE b - a

\* the rate of the evaluation in hundredths of a MB: a rate in MB as it is given, one
\* in KB divided by 1024, to the nearest hundredth
RateHundredths(e) ==
    LET m == TransferMatch(e.value[2])
        tenths == 10 * IntOf(m.int) + DigitValue(m.frac[1])
    IN  IF m.rest = <<"KB">>
        THEN CHOOSE h \in 0..tenths :
                \A g \in 0..tenths :
                    Distance(1024 * h, 10 * tenths) <= Distance(1024 * g, 10 * tenths)
        ELSE 10 * tenths

\* the line of performance data of the evaluation: the iops count and the rate in MB
IopsLine(e) ==
    <<"|">> \o Text(e.device_name) \o <<" iops=">> \o e.value[1] \o <<";;;0;; ">>
    \o Text(e.device_name) \o <<" transfer speed=">>
    \o (IF RateHundredths(e) % 10 = 0 THEN FloatText(RateHundredths(e) \div 10)
        ELSE FloatText2(RateHundredths(e)))
    \o <<"MB;;;0;;">>

\* C22: an evaluation of the iops and transfer metric has no severity and records
\* nothing, and its line of performance data, with the iops count and the rate in MB
\* (a rate in KB divided by 1024), is on stdout; a run of volume-statistics keeps both
\* stores empty, prints one such line per evaluation, and reports with exit status 0.
C22_IopsIsInformational ==
    /\ \A i \in IopsEvals :
          /\ evals[i].status = "" /\ evals[i].store = "none"
          /\ InList(IopsLine(evals[i]), stdout)
    /\ options.subcommand = "volume-statistics" =>
          /\ result_list = <<>> /\ result_dict = <<>>
          /\ Cardinality({k \in 1..Len(stdout) : stdout[k][1] = "|"})
                = Cardinality(IopsEvals)
          /\ pc = "reported" => exit_code = <<0>> /\ final_result_list = <<>>

\* a reported run in which a rate in KB and a rate in MB were evaluated
C22_Witness ==
    /\ pc = "reported"
    /\ \E i, j \in IopsEvals :
          /\ TransferMatch(evals[i].value[2]).rest = <<"KB">>
          /\ TransferMatch(evals[j].value[2]).rest = <<"MB">>

\* C23: every run ends: it reaches the end of the report of check_exitcodes or the
\* exit of output(), one of the error paths, and there its exit status is one of 0,
\* 1, 2 and 3.
C23_RunTerminates ==
    <>(/\ pc \in {"reported", "aborted"}
       /\ exit_code \in {<<0>>, <<1>>, <<2>>, <<3>>})

\* the entries of the ignore option of the subcommand's own device family, in the
\* case they are compared in: upper for controllers, pools and FC ports, lower for
\* disks, volumes and management ports, as typed for fans, FRUs, power supplies and
\* sensors
ComparedEntries ==
    CASE options.subcommand = "controllers" -> UpperAll(options.ignore_controller_list)
      [] options.subcommand = "pools" -> UpperAll(options.ignore_pool_list)
      [] options.subcommand = "ports" -> UpperAll(options.ignore_fc_ports_list)
      [] options.subcommand = "disks" -> LowerAll(options.ignore_disks_list)
      [] options.subcommand = "volumes" -> LowerAll(options.ignore_volume_list)
      [] options.subcommand = "network-parameters" ->
            LowerAll(options.ignore_mgmt_ports_list)
      [] options.subcommand = "fans" -> options.ignore_fan_list
      [] options.subcommand = "frus" -> options.ignore_fru_list
      [] options.subcommand = "power-supplies" -> options.ignore_psu_list
      [] OTHER -> options.ignore_sensor_list

\* C24: in the ten subcommands with an ignore option of their own, a device is left
\* out of the evaluation exactly when its name, as the data source returned it, is
\* one of the entries of that option in the case of the subcommand: upper-cased for
\* controllers, pools and FC ports, lower-cased for disks, volumes and management
\* ports, and as typed for fans, FRUs, power supplies and sensors.
C24_IgnoreEntriesCase ==
    options.subcommand \in {"controllers", "pools", "ports", "disks", "volumes",
                            "network-parameters", "fans", "frus", "power-supplies",
                            "sensor-status"} =>
        \A dev \in 1..Len(device_part_list) :
            IF InList(DeviceName(dev), ComparedEntries)
            THEN \A i \in 1..Len(evals) : evals[i].dev # dev
            ELSE PastParameters => \E i \in EvalsOf("parameter") : evals[i].dev = dev

\* the sequence a is the beginning of the sequence b
IsPrefix(a, b) == Len(a) <= Len(b) /\ SubSeq(b, 1, Len(a)) = a

\* the mapping b holds the devices of the mapping a in their places, each with its
\* messages of a at the beginning of its messages
MappingGrew(a, b) ==
    /\ Len(a) <= Len(b)
    /\ \A k \in 1..Len(a) : b[k][1] = a[k][1] /\ IsPrefix(a[k][2], b[k][2])

\* C25: every step of a run leaves the messages of the flat list and of the
\* per-device mapping where they are and as they are, new ones coming only after
\* them, and the step of check_exitcodes leaves both stores as they are.
C25_StoresAppendOnly ==
    [][/\ IsPrefix(result_list, result_list')
       /\ MappingGrew(result_dict, result_dict')
       /\ pc = "check_exitcodes" =>
             result_list' = result_list /\ result_dict' = result_dict]_vars

\* a reported run in which the parameter pass and the performance pass both recorded
\* a message under one device, and the flat list holds a message
C25_Witness ==
    /\ pc = "reported"
    /\ result_list # <<>>
    /\ \E k \in 1..Len(result_dict) :
          /\ Len(result_dict[k][2]) >= 2
          /\ \E i \in EvalsOf("parameter"), j \in EvalsOf("performance") :
                /\ evals[i].device_name = result_dict[k][1] /\ evals[i].store = "dict"
                /\ evals[j].device_name = result_dict[k][1] /\ evals[j].store = "dict"

\* a device outside the ignore list has, for the rule at index k of the rule table of
\* the subcommand, a value of the critical side
CriticalValueAt(dev, k) ==
    LET rule == device_parameters_dict(options.subcommand)[k]
    IN  /\ ~InGivenIgnoreList(DeviceName(dev))
        /\ Member(Get(device_part_list[dev], rule.prop), rule.critical)

\* C26: a run that reported over a device which is not ignored and has a property
\* whose value is the critical value of its rule, or a member of its critical set,
\* ended with exit status 2.
C26_CriticalValueExitsTwo ==
    (/\ pc = "reported"
     /\ \E dev \in 1..Len(device_part_list) :
            \E k \in 1..Len(device_parameters_dict(options.subcommand)) :
                CriticalValueAt(dev, k))
        => exit_code = <<2>>

\* the severity tags of the messages of a list, in its order
TagsOf(lst) == [i \in 1..Len(lst) |-> Tag(lst[i])]

\* the findings of a second run with the same severities and other names and values:
\* each message of the flat list keeps its tag and has a text without severity words
SameSeverities(lst) == [i \in 1..Len(lst) |-> <<Tag(lst[i]), " - ", "finding">>]

\* the per-device mapping of that second run: the device at place k is named by its
\* place, its messages keep their tags
SameSeveritiesByDevice(dict) ==
    [k \in 1..Len(dict) |-> << <<"device ">> \o IntText(k), SameSeverities(dict[k][2])>>]

\* C27: the run and a run whose findings have the same severity tags and texts free
\* of severity words print the same severities in the flat region, roll each device
\* up to the same severities, print the same severities in the rollup region, and
\* exit with the same status.
C27_OutcomeDependsOnTagsOnly ==
    pc = "reported" =>
        LET flat == SameSeverities(result_list)
            final == final_result(SameSeveritiesByDevice(result_dict))
        IN  /\ TagsOf(FlatPrinted) = TagsOf(flat_region(flat))
            /\ TagsOf(final_result_list) = TagsOf(final)
            /\ TagsOf(RollupPrinted) = TagsOf(rollup_region(final))
            /\ exit_code = <<exit_code_of(flat, final)>>

=============================================================================
